---- MODULE Spec2Model ----
(***************************************************************************)
(* npm-dependency-guardian: the static capability extractor (AST walk,     *)
(* scopes, import recognition, globals and member tracing), the per-package *)
(* accumulation and the policy construction of src/main.js.                 *)
(*                                                                         *)
(* Representation of JavaScript values:                                    *)
(*   - a string is the sequence of its dot-free segments, "fs.readFile" is *)
(*     <<"fs", "readFile">> and "" is <<"">>; `${a}.${b}` is a \o b and    *)
(*     split('.') is the sequence itself;                                  *)
(*   - a value held in a Set or an array is [typeof, str], str being its   *)
(*     ToString;                                                           *)
(*   - a Set is the sequence of its elements in insertion order;           *)
(*   - an object used as a map is the sequence of its [key, value] pairs   *)
(*     in insertion order (Object.keys order);                             *)
(*   - a filesystem path is the sequence of its components.                *)
(***************************************************************************)
EXTENDS Integers, Sequences, FiniteSets, TLC

----------------------------------------------------------------------------
(* Strings and values *)

JSString(segs) == [typeof |-> "string", str |-> segs]

JSNumber(segs) == [typeof |-> "number", str |-> segs]

\* String(name) for an identifier name, which holds no dot
Str(name) == <<name>>

\* `${a}.${b}` on two strings
Dot(a, b) == a \o b

\* The atoms of the model in UTF-16 code unit order; every character used is
\* above '.', so comparing segment by segment is comparing the joined strings.
AtomOrder == <<"", "0", "1", "2", "a", "b", "c", "console", "fs", "lodash", "log",
               "path", "process", "readFile", "require", "undefined", "x", "y">>

AtomRank(a) == CHOOSE i \in 1..Len(AtomOrder) : AtomOrder[i] = a

RECURSIVE StrLess(_, _)
\* a < b on strings (the comparison Array.prototype.sort uses by default)
StrLess(a, b) ==
  IF b = <<>> THEN FALSE
  ELSE IF a = <<>> THEN TRUE
  ELSE IF Head(a) = Head(b) THEN StrLess(Tail(a), Tail(b))
  ELSE AtomRank(Head(a)) < AtomRank(Head(b))

----------------------------------------------------------------------------
(* Set (insertion ordered) and the prototype patches of setUtils.js *)

SetHas(s, v) == \E i \in 1..Len(s) : s[i] = v

SetAdd(s, v) == IF SetHas(s, v) THEN s ELSE Append(s, v)

RECURSIVE SetAddAll(_, _)
SetAddAll(s, vs) == IF vs = <<>> THEN s ELSE SetAddAll(SetAdd(s, Head(vs)), Tail(vs))

\* new Set(iterable)
NewSet(vs) == SetAddAll(<<>>, vs)

setUnion(this, other) == SetAddAll(SetAddAll(<<>>, this), other)

\* An intersection that keeps every element of this
setKeepAll(this, other) == this

RECURSIVE setIntersection(_, _)
setIntersection(this, other) ==
  IF this = <<>> THEN <<>>
  ELSE LET rest == setIntersection(Tail(this), other)
       IN  IF SetHas(other, Head(this)) THEN <<Head(this)>> \o rest ELSE rest

\* The elements of a Set as a TLA+ set
Elems(s) == {s[i] : i \in 1..Len(s)}

----------------------------------------------------------------------------
(* Array.prototype.sort() without a comparator: ascending by ToString, stable *)

RECURSIVE SortInsert(_, _)
SortInsert(sorted, v) ==
  IF sorted = <<>> THEN <<v>>
  ELSE IF StrLess(v.str, Head(sorted).str) THEN <<v>> \o sorted
  ELSE <<Head(sorted)>> \o SortInsert(Tail(sorted), v)

RECURSIVE ArraySort(_)
ArraySort(arr) ==
  IF arr = <<>> THEN <<>>
  ELSE SortInsert(ArraySort(SubSeq(arr, 1, Len(arr) - 1)), arr[Len(arr)])

----------------------------------------------------------------------------
(* Objects used as maps *)

ObjKeys(o) == [i \in 1..Len(o) |-> o[i].key]

ObjHas(o, k) == \E i \in 1..Len(o) : o[i].key = k

ObjGet(o, k) == o[CHOOSE i \in 1..Len(o) : o[i].key = k].value

\* o[k] = v
ObjSet(o, k, v) ==
  IF ObjHas(o, k)
  THEN [i \in 1..Len(o) |-> IF o[i].key = k THEN [key |-> k, value |-> v] ELSE o[i]]
  ELSE Append(o, [key |-> k, value |-> v])

----------------------------------------------------------------------------
(* AST nodes, in the shapes acorn produces (ESTree).  uid is the identity  *)
(* of the node object: the code compares nodes with === and includes().    *)

Null == [type |-> "Null", uid |-> 0]

IsNull(n) == n.type = "Null"

Identifier(u, name) == [type |-> "Identifier", uid |-> u, name |-> name]

\* A literal; value is the JavaScript value it denotes
Literal(u, value) == [type |-> "Literal", uid |-> u, value |-> value]

MemberExpression(u, object, property, computed) ==
  [type |-> "MemberExpression", uid |-> u, object |-> object, property |-> property,
   computed |-> computed]

CallExpression(u, callee, arguments) ==
  [type |-> "CallExpression", uid |-> u, callee |-> callee, arguments |-> arguments]

NewExpression(u, callee, arguments) ==
  [type |-> "NewExpression", uid |-> u, callee |-> callee, arguments |-> arguments]

ImportExpression(u, source) == [type |-> "ImportExpression", uid |-> u, source |-> source]

ExpressionStatement(u, expression) ==
  [type |-> "ExpressionStatement", uid |-> u, expression |-> expression]

VariableDeclarator(u, id, init) ==
  [type |-> "VariableDeclarator", uid |-> u, id |-> id, init |-> init]

VariableDeclaration(u, kind, declarations) ==
  [type |-> "VariableDeclaration", uid |-> u, kind |-> kind, declarations |-> declarations]

Property(u, key, value) == [type |-> "Property", uid |-> u, key |-> key, value |-> value]

RestElement(u, argument) == [type |-> "RestElement", uid |-> u, argument |-> argument]

ObjectPattern(u, properties) ==
  [type |-> "ObjectPattern", uid |-> u, properties |-> properties]

\* elements holds Null for an elided slot
ArrayPattern(u, elements) == [type |-> "ArrayPattern", uid |-> u, elements |-> elements]

BlockStatement(u, body) == [type |-> "BlockStatement", uid |-> u, body |-> body]

FunctionDeclaration(u, id, params, body) ==
  [type |-> "FunctionDeclaration", uid |-> u, id |-> id, params |-> params, body |-> body,
   expression |-> FALSE]

\* function (params) { body }
FunctionExpression(u, params, body) ==
  [type |-> "FunctionExpression", uid |-> u, id |-> Null, params |-> params, body |-> body,
   expression |-> FALSE]

\* (params) => body; expression tells that body is an expression and no block
ArrowFunctionExpression(u, params, body, expression) ==
  [type |-> "ArrowFunctionExpression", uid |-> u, id |-> Null, params |-> params,
   body |-> body, expression |-> expression]

\* value is the FunctionExpression of the method
MethodDefinition(u, key, value) ==
  [type |-> "MethodDefinition", uid |-> u, key |-> key, value |-> value]

ClassBody(u, body) == [type |-> "ClassBody", uid |-> u, body |-> body]

ClassDeclaration(u, id, body) ==
  [type |-> "ClassDeclaration", uid |-> u, id |-> id, superClass |-> Null, body |-> body]

\* for (init;;) body
ForStatement(u, init, body) ==
  [type |-> "ForStatement", uid |-> u, init |-> init, test |-> Null, update |-> Null,
   body |-> body]

\* for (left of right) body
ForOfStatement(u, left, right, body) ==
  [type |-> "ForOfStatement", uid |-> u, left |-> left, right |-> right, body |-> body]

\* for (left in right) body
ForInStatement(u, left, right, body) ==
  [type |-> "ForInStatement", uid |-> u, left |-> left, right |-> right, body |-> body]

ImportSpecifier(u, imported, local) ==
  [type |-> "ImportSpecifier", uid |-> u, imported |-> imported, local |-> local]

ImportDefaultSpecifier(u, local) ==
  [type |-> "ImportDefaultSpecifier", uid |-> u, local |-> local]

ImportNamespaceSpecifier(u, local) ==
  [type |-> "ImportNamespaceSpecifier", uid |-> u, local |-> local]

ImportDeclaration(u, specifiers, source) ==
  [type |-> "ImportDeclaration", uid |-> u, specifiers |-> specifiers, source |-> source]

ExportSpecifier(u, local, exported) ==
  [type |-> "ExportSpecifier", uid |-> u, local |-> local, exported |-> exported]

ExportNamedDeclaration(u, declaration, specifiers, source) ==
  [type |-> "ExportNamedDeclaration", uid |-> u, declaration |-> declaration,
   specifiers |-> specifiers, source |-> source]

ExportAllDeclaration(u, exported, source) ==
  [type |-> "ExportAllDeclaration", uid |-> u, exported |-> exported, source |-> source]

Program(body) == [type |-> "Program", uid |-> 1, body |-> body]

----------------------------------------------------------------------------
(* acorn-walk: base[type](node, st, c) as the sequence of calls c(child,   *)
(* st, override) it makes, "" standing for no override.  ObjectPattern,    *)
(* MemberExpression and Property are the patched walkers.                  *)

Call(node, override) == [node |-> node, override |-> override]

CallEach(nodes, override) == [i \in 1..Len(nodes) |-> Call(nodes[i], override)]

\* nodes without its null entries
RECURSIVE NonNull(_)
NonNull(nodes) ==
  IF nodes = <<>> THEN <<>>
  ELSE (IF IsNull(Head(nodes)) THEN <<>> ELSE <<Head(nodes)>>) \o NonNull(Tail(nodes))

Opt(node, override) == IF IsNull(node) THEN <<>> ELSE <<Call(node, override)>>

base(type, node) ==
  CASE type \in {"Program", "BlockStatement"} -> CallEach(node.body, "Statement")
    [] type \in {"Statement", "Expression", "MemberPattern"} -> <<Call(node, "")>>
    [] type = "ExpressionStatement" -> <<Call(node.expression, "Expression")>>
    [] type = "VariableDeclaration" -> CallEach(node.declarations, "")
    [] type = "VariableDeclarator" ->
         <<Call(node.id, "Pattern")>> \o Opt(node.init, "Expression")
    [] type \in {"FunctionDeclaration", "FunctionExpression", "ArrowFunctionExpression"} ->
         <<Call(node, "Function")>>
    [] type = "Function" ->
         Opt(node.id, "Pattern") \o CallEach(node.params, "Pattern")
           \o <<Call(node.body, IF node.expression THEN "Expression" ELSE "Statement")>>
    [] type = "Pattern" ->
         IF node.type = "Identifier" THEN <<Call(node, "VariablePattern")>>
         ELSE IF node.type = "MemberExpression" THEN <<Call(node, "MemberPattern")>>
         ELSE <<Call(node, "")>>
    [] type = "RestElement" -> <<Call(node.argument, "Pattern")>>
    [] type = "ArrayPattern" -> CallEach(NonNull(node.elements), "Pattern")
    [] type = "ObjectPattern" ->
         [i \in 1..Len(node.properties) |->
            Call(node.properties[i], node.properties[i].type)]
    [] type \in {"Property", "MethodDefinition"} ->
         <<Call(node.key, "Expression")>> \o Opt(node.value, "Expression")
    [] type = "ClassDeclaration" -> <<Call(node, "Class")>>
    [] type = "Class" ->
         Opt(node.id, "Pattern") \o Opt(node.superClass, "Expression")
           \o <<Call(node.body, "")>>
    [] type = "ClassBody" -> CallEach(node.body, "")
    [] type = "ForStatement" ->
         Opt(node.init, "ForInit") \o Opt(node.test, "Expression")
           \o Opt(node.update, "Expression") \o <<Call(node.body, "Statement")>>
    [] type \in {"ForInStatement", "ForOfStatement"} ->
         <<Call(node.left, "ForInit"), Call(node.right, "Expression"),
           Call(node.body, "Statement")>>
    [] type = "ForInit" ->
         IF node.type = "VariableDeclaration" THEN <<Call(node, "")>>
         ELSE <<Call(node, "Expression")>>
    [] type = "MemberExpression" ->
         <<Call(node.object, "Expression"), Call(node.property, "Expression")>>
    [] type \in {"CallExpression", "NewExpression"} ->
         <<Call(node.callee, "Expression")>> \o CallEach(node.arguments, "Expression")
    [] type = "ImportExpression" -> <<Call(node.source, "Expression")>>
    [] type = "ImportDeclaration" ->
         CallEach(node.specifiers, "") \o <<Call(node.source, "Expression")>>
    [] type = "ExportNamedDeclaration" ->
         Opt(node.declaration, "Statement") \o Opt(node.source, "Expression")
    [] type = "ExportAllDeclaration" ->
         Opt(node.exported, "") \o <<Call(node.source, "Expression")>>
    [] OTHER -> <<>>  \* Identifier, Literal, VariablePattern, the import specifiers

----------------------------------------------------------------------------
(* astUtils.js: Variable, Environment.  Environments are heap objects: envs *)
(* is the heap, an environment is its index in envs, 0 is null/undefined.  *)

NullValue == [typeof |-> "null", str |-> <<"null">>]

Variable(variableName) == [name |-> variableName, module |-> NullValue]

Environment(type, parent, initial_vars) ==
  [type |-> type, parent |-> parent, vars |-> initial_vars]

\* A variable is named by the environment holding it and its index in vars
NoVar == [env |-> 0, idx |-> 0]

VarAt(envs, loc) == envs[loc.env].vars[loc.idx]

Min(S) == CHOOSE i \in S : \A j \in S : i <= j

RECURSIVE getVarNamed(_, _, _)
getVarNamed(envs, e, name) ==
  LET hits == {i \in 1..Len(envs[e].vars) : envs[e].vars[i].name = name}
  IN  IF hits # {} THEN [env |-> e, idx |-> Min(hits)]
      ELSE IF envs[e].parent = 0 THEN NoVar
      ELSE getVarNamed(envs, envs[e].parent, name)

RECURSIVE getModRefVarBeyondPlain(_, _, _)
\* getModRefVarNamed that goes on to the parent past a variable without a module
getModRefVarBeyondPlain(envs, e, name) ==
  LET hits == {i \in 1..Len(envs[e].vars) :
                 envs[e].vars[i].name = name /\ envs[e].vars[i].module # NullValue}
  IN  IF hits # {} THEN [env |-> e, idx |-> Min(hits)]
      ELSE IF envs[e].parent = 0 THEN NoVar
      ELSE getModRefVarBeyondPlain(envs, envs[e].parent, name)

getModRefVarNamed(envs, e, name) ==
  LET variable == getVarNamed(envs, e, name)
  IN  IF variable = NoVar THEN NoVar
      ELSE IF VarAt(envs, variable).module = NullValue THEN NoVar ELSE variable

hasVarNamed(envs, e, name) == getVarNamed(envs, e, name) # NoVar

addVar(envs, e, variable) == [envs EXCEPT ![e].vars = Append(@, variable)]

RECURSIVE FunctionScopeOf(_, _)
\* The loop of addVarToFunctionScope: the environment it stops at
FunctionScopeOf(envs, e) ==
  IF envs[e].type \notin {"Function", "Method"} /\ envs[e].parent # 0
  THEN FunctionScopeOf(envs, envs[e].parent)
  ELSE e

\* addVarToFunctionScope that adds to the environment it is called on
addVarToBlockScope(envs, e, variable) == addVar(envs, e, variable)

addVarToFunctionScope(envs, e, variable) ==
  addVar(envs, FunctionScopeOf(envs, e), variable)

setModule(envs, loc, module) == [envs EXCEPT ![loc.env].vars[loc.idx].module = module]

RECURSIVE Flat(_)
\* Array.prototype.flat() on an array of arrays
Flat(arrays) == IF arrays = <<>> THEN <<>> ELSE Head(arrays) \o Flat(Tail(arrays))

PatternTypes == {"Identifier", "RestElement", "AssignmentPattern", "ObjectPattern",
                 "ArrayPattern", "Property", "UpdateExpression", "UnaryExpression"}

RECURSIVE identifiersFromNode(_)
\* The identifier nodes a binding target creates; <<>> where the code throws
identifiersFromNode(node) ==
  CASE node.type = "Identifier" -> <<node>>
    [] node.type \in {"RestElement", "UpdateExpression", "UnaryExpression"} ->
         identifiersFromNode(node.argument)
    [] node.type = "AssignmentPattern" -> identifiersFromNode(node.left)
    [] node.type = "ObjectPattern" ->
         Flat([i \in 1..Len(node.properties) |-> identifiersFromNode(node.properties[i])])
    [] node.type = "ArrayPattern" ->
         Flat([i \in 1..Len(NonNull(node.elements)) |->
                 identifiersFromNode(NonNull(node.elements)[i])])
    [] node.type = "Property" -> identifiersFromNode(node.value)
    [] OTHER -> <<>>

RECURSIVE identifiersFromNodeThrows(_)
\* Whether identifiersFromNode(node) ends in `throw Error("Unknown node type")`
identifiersFromNodeThrows(node) ==
  CASE node.type = "Identifier" -> FALSE
    [] node.type \in {"RestElement", "UpdateExpression", "UnaryExpression"} ->
         identifiersFromNodeThrows(node.argument)
    [] node.type = "AssignmentPattern" -> identifiersFromNodeThrows(node.left)
    [] node.type = "ObjectPattern" ->
         \E i \in 1..Len(node.properties) : identifiersFromNodeThrows(node.properties[i])
    [] node.type = "ArrayPattern" ->
         \E i \in 1..Len(node.elements) :
            ~IsNull(node.elements[i]) /\ identifiersFromNodeThrows(node.elements[i])
    [] node.type = "Property" -> identifiersFromNodeThrows(node.value)
    [] OTHER -> TRUE

identifiersFromImportDeclaration(node) ==
  [i \in 1..Len(node.specifiers) |-> node.specifiers[i].local]

identifiersFromVariableDeclaration(node) ==
  Flat([i \in 1..Len(node.declarations) |-> identifiersFromNode(node.declarations[i].id)])

RECURSIVE AddVars(_, _, _)
\* for (const identifier of identifiers) env.addVar(new Variable(identifier.name))
AddVars(envs, e, identifiers) ==
  IF identifiers = <<>> THEN envs
  ELSE AddVars(addVar(envs, e, Variable(Head(identifiers).name)), e, Tail(identifiers))

RECURSIVE AddVarsToFunctionScope(_, _, _)
AddVarsToFunctionScope(envs, e, identifiers) ==
  IF identifiers = <<>> THEN envs
  ELSE AddVarsToFunctionScope(
         addVarToFunctionScope(envs, e, Variable(Head(identifiers).name)), e,
         Tail(identifiers))

trackVars(node, type, envs, e) ==
  CASE type = "ImportDeclaration" -> AddVars(envs, e, identifiersFromImportDeclaration(node))
    [] type = "VariableDeclaration" ->
         IF node.kind = "var"
         THEN AddVarsToFunctionScope(envs, e, identifiersFromVariableDeclaration(node))
         ELSE AddVars(envs, e, identifiersFromVariableDeclaration(node))
    [] OTHER -> envs

trackVarsThrows(node, type) ==
  /\ type = "VariableDeclaration"
  /\ \E i \in 1..Len(node.declarations) : identifiersFromNodeThrows(node.declarations[i].id)

\* ancestors[ancestors.length - k]
Anc(ancestors, k) == ancestors[Len(ancestors) - k + 1]

isFunction(ancestors) ==
  /\ Len(ancestors) >= 2
  /\ Anc(ancestors, 2).type \in {"FunctionDeclaration", "Function", "FunctionExpression",
                                 "ArrowFunctionExpression"}

isMethod(ancestors) ==
  /\ Len(ancestors) >= 3
  /\ Anc(ancestors, 3).type = "MethodDefinition"

initialVarsForFunction(ancestors) ==
  LET params == Anc(ancestors, 2).params
      identifiers == Flat([i \in 1..Len(params) |-> identifiersFromNode(params[i])])
  IN  [i \in 1..Len(identifiers) |-> Variable(identifiers[i].name)]

\* A node without params (undefined.map), or an unknown parameter shape
initialVarsForFunctionThrows(ancestors) ==
  \/ Anc(ancestors, 2).type \notin {"FunctionDeclaration", "FunctionExpression",
                                    "ArrowFunctionExpression"}
  \/ \E i \in 1..Len(Anc(ancestors, 2).params) :
        identifiersFromNodeThrows(Anc(ancestors, 2).params[i])

\* trackScope returns the heap and the environment that is active afterwards
trackScope(node, type, ancestors, envs, e) ==
  CASE type = "Program" ->
         [envs |-> Append(envs, Environment("Program", 0, <<>>)), env |-> Len(envs) + 1]
    [] type = "BlockStatement" ->
         LET env_type == IF isFunction(ancestors) THEN "Function"
                         ELSE IF isMethod(ancestors) THEN "Method" ELSE "Block"
             initial_vars == IF env_type = "Block" THEN <<>>
                             ELSE initialVarsForFunction(ancestors)
         IN  [envs |-> Append(envs, Environment(env_type, e, initial_vars)),
              env |-> Len(envs) + 1]
    [] OTHER -> [envs |-> envs, env |-> e]

trackScopeThrows(type, ancestors) ==
  /\ type = "BlockStatement"
  /\ isFunction(ancestors) \/ isMethod(ancestors)
  /\ initialVarsForFunctionThrows(ancestors)

----------------------------------------------------------------------------
(* Reading properties of nodes the way the code does *)

\* typeof(node.name): only identifiers carry a name
TypeofName(node) == IF node.type = "Identifier" THEN "string" ELSE "undefined"

\* `${node.name}`
NameText(node) == IF node.type = "Identifier" THEN Str(node.name) ELSE Str("undefined")

\* node.callee.name === 'require'
CalleeNamedRequire(call) == call.callee.type = "Identifier" /\ call.callee.name = "require"

\* `${node.property.name || node.property.value}`, property an Identifier or a Literal
PropertyText(property) ==
  IF property.type = "Identifier" THEN Str(property.name) ELSE property.value.str

Digits == <<"0", "1", "2", "3", "4">>

\* `${i}` for an array index
IndexText(i) == Str(Digits[i + 1])

----------------------------------------------------------------------------
(* extractModules.js: the import/require recognizer and the member tracer *)

\* validRequireCall that knows calls only, not new-expressions
validRequireCallExpression(declarator) ==
  /\ ~IsNull(declarator.init)
  /\ declarator.id.type = "Identifier"
  /\ declarator.init.type = "CallExpression"
  /\ declarator.init.callee.type = "Identifier"
  /\ declarator.init.callee.name = "require"
  /\ Len(declarator.init.arguments) > 0
  /\ declarator.init.arguments[1].type = "Literal"
  /\ declarator.init.arguments[1].value.typeof = "string"

validRequireCall(declarator) ==
  /\ ~IsNull(declarator.init)
  /\ declarator.id.type = "Identifier"
  /\ declarator.init.type \in {"CallExpression", "NewExpression"}
  /\ declarator.init.callee.type = "Identifier"
  /\ declarator.init.callee.name = "require"
  /\ Len(declarator.init.arguments) > 0
  /\ declarator.init.arguments[1].type = "Literal"
  /\ declarator.init.arguments[1].value.typeof = "string"

\* The iteration without the branch of the other module referencing variable
ModuleReferencingVarOfRequire(envs, e, variableDeclarator) ==
  IF validRequireCall(variableDeclarator)
  THEN setModule(envs, getVarNamed(envs, e, variableDeclarator.id.name),
                 variableDeclarator.init.arguments[1].value)
  ELSE envs

\* One iteration of the loop over node.declarations
ModuleReferencingVar(envs, e, variableDeclarator) ==
  IF validRequireCall(variableDeclarator)
  THEN setModule(envs, getVarNamed(envs, e, variableDeclarator.id.name),
                 variableDeclarator.init.arguments[1].value)
  ELSE IF /\ ~IsNull(variableDeclarator.init)
          /\ variableDeclarator.id.type = "Identifier"
          /\ variableDeclarator.init.type = "Identifier"
  THEN LET modRefVar == getModRefVarNamed(envs, e, variableDeclarator.init.name)
       IN  IF modRefVar # NoVar
           THEN setModule(envs, getVarNamed(envs, e, variableDeclarator.id.name),
                          VarAt(envs, modRefVar).module)
           ELSE envs
  ELSE envs

RECURSIVE ModuleReferencingVars(_, _, _)
ModuleReferencingVars(envs, e, declarations) ==
  IF declarations = <<>> THEN envs
  ELSE ModuleReferencingVars(ModuleReferencingVar(envs, e, Head(declarations)), e,
                             Tail(declarations))

RECURSIVE ImportedDefaultVars(_, _, _, _)
\* The loop over the specifiers that knows the default specifier only
ImportedDefaultVars(envs, e, specifiers, module) ==
  IF specifiers = <<>> THEN envs
  ELSE LET specifier == Head(specifiers)
           next == IF specifier.type = "ImportDefaultSpecifier"
                   THEN setModule(envs, getVarNamed(envs, e, specifier.local.name), module)
                   ELSE envs
       IN  ImportedDefaultVars(next, e, Tail(specifiers), module)

RECURSIVE ImportedModuleVars(_, _, _, _)
ImportedModuleVars(envs, e, specifiers, module) ==
  IF specifiers = <<>> THEN envs
  ELSE LET specifier == Head(specifiers)
           next == IF specifier.type \in {"ImportDefaultSpecifier", "ImportNamespaceSpecifier"}
                   THEN setModule(envs, getVarNamed(envs, e, specifier.local.name), module)
                   ELSE envs
       IN  ImportedModuleVars(next, e, Tail(specifiers), module)

trackModuleReferencingVars(node, type, envs, e) ==
  CASE type = "VariableDeclaration" -> ModuleReferencingVars(envs, e, node.declarations)
    [] type = "ImportDeclaration" ->
         IF node.source.type = "Literal"
         THEN ImportedModuleVars(envs, e, node.specifiers, node.source.value)
         ELSE envs
    [] OTHER -> envs

\* The call `require(<string literal>)` as the destructuring branches test it
\* (no test of the callee's type)
RequireInit(init) ==
  /\ ~IsNull(init)
  /\ init.type \in {"CallExpression", "NewExpression"}
  /\ CalleeNamedRequire(init)
  /\ Len(init.arguments) > 0
  /\ init.arguments[1].type = "Literal"
  /\ init.arguments[1].value.typeof = "string"

RECURSIVE ObjectPatternValueMembers(_, _, _)
\* The loop recording the name a property binds instead of its key
ObjectPatternValueMembers(memberAccesses, module, properties) ==
  IF properties = <<>> THEN memberAccesses
  ELSE LET property == Head(properties)
           next == IF property.type = "Property"
                   THEN SetAdd(memberAccesses, JSString(Dot(module, NameText(property.value))))
                   ELSE memberAccesses
       IN  ObjectPatternValueMembers(next, module, Tail(properties))

RECURSIVE ObjectPatternMembers(_, _, _)
\* for (const property of declarator.id.properties): the member of each Property
ObjectPatternMembers(memberAccesses, module, properties) ==
  IF properties = <<>> THEN memberAccesses
  ELSE LET property == Head(properties)
           next == IF property.type = "Property"
                   THEN SetAdd(memberAccesses, JSString(Dot(module, NameText(property.key))))
                   ELSE memberAccesses
       IN  ObjectPatternMembers(next, module, Tail(properties))

UnknownPropertyType(properties) ==
  \E i \in 1..Len(properties) : properties[i].type \notin {"Property", "RestElement"}

RECURSIVE IndexMembers(_, _, _, _)
\* for (let i = 0; i < n; ++i) memberAccesses.add(`${module}.${i}`), from i on
IndexMembers(memberAccesses, module, i, n) ==
  IF i >= n THEN memberAccesses
  ELSE IndexMembers(SetAdd(memberAccesses, JSString(Dot(module, IndexText(i)))), module,
                    i + 1, n)

\* The body of the loop over node.declarations in trackMemberAccess
DeclaratorMembers(memberAccesses, envs, e, declarator) ==
  IF declarator.id.type = "ObjectPattern"
  THEN IF RequireInit(declarator.init)
       THEN ObjectPatternMembers(memberAccesses, declarator.init.arguments[1].value.str,
                                 declarator.id.properties)
       ELSE IF ~IsNull(declarator.init) /\ declarator.init.type = "Identifier"
       THEN LET modRefVar == getModRefVarNamed(envs, e, declarator.init.name)
            IN  IF modRefVar # NoVar
                THEN ObjectPatternMembers(memberAccesses, VarAt(envs, modRefVar).module.str,
                                          declarator.id.properties)
                ELSE memberAccesses
       ELSE memberAccesses
  ELSE IF declarator.id.type = "ArrayPattern"
  THEN IF RequireInit(declarator.init)
       THEN IndexMembers(memberAccesses, NameText(declarator.init), 0,
                         Len(declarator.id.elements))
       ELSE IF ~IsNull(declarator.init) /\ declarator.init.type = "Identifier"
       THEN LET modRefVar == getModRefVarNamed(envs, e, declarator.init.name)
            IN  IF modRefVar # NoVar
                THEN IndexMembers(memberAccesses, VarAt(envs, modRefVar).module.str, 0,
                                  Len(declarator.id.elements))
                ELSE memberAccesses
       ELSE memberAccesses
  ELSE memberAccesses

RECURSIVE DeclarationMembers(_, _, _, _)
DeclarationMembers(memberAccesses, envs, e, declarations) ==
  IF declarations = <<>> THEN memberAccesses
  ELSE DeclarationMembers(DeclaratorMembers(memberAccesses, envs, e, Head(declarations)),
                          envs, e, Tail(declarations))

RECURSIVE SpecifierLocalMembers(_, _, _, _)
\* The loop recording the local name of every specifier
SpecifierLocalMembers(memberAccesses, module, specifiers, wanted) ==
  IF specifiers = <<>> THEN memberAccesses
  ELSE LET specifier == Head(specifiers)
           next == IF specifier.type = wanted
                   THEN SetAdd(memberAccesses,
                               JSString(Dot(module, NameText(specifier.local))))
                   ELSE memberAccesses
       IN  SpecifierLocalMembers(next, module, Tail(specifiers), wanted)

RECURSIVE SpecifierMembers(_, _, _, _)
\* The import specifiers' imported names, or the export specifiers' local names
SpecifierMembers(memberAccesses, module, specifiers, wanted) ==
  IF specifiers = <<>> THEN memberAccesses
  ELSE LET specifier == Head(specifiers)
           next == IF specifier.type = wanted
                   THEN SetAdd(memberAccesses,
                               JSString(Dot(module,
                                 IF wanted = "ImportSpecifier"
                                 THEN NameText(specifier.imported)
                                 ELSE NameText(specifier.local))))
                   ELSE memberAccesses
       IN  SpecifierMembers(next, module, Tail(specifiers), wanted)

\* Member access directly to a require call, as the code tests it
DirectRequireMember(node) ==
  /\ node.property.type \in {"Literal", "Identifier"}
  /\ node.object.type \in {"CallExpression", "NewExpression"}
  /\ node.object.callee.type = "Identifier"
  /\ node.object.callee.name = "require"
  /\ Len(node.object.arguments) > 0
  /\ node.object.arguments[1].type = "Literal"
  /\ TypeofName(node.object.arguments[1]) = "string"

trackMemberAccess(node, type, envs, e, memberAccesses) ==
  IF type = "ImportDeclaration" /\ node.source.type = "Literal"
  THEN SpecifierMembers(memberAccesses, node.source.value.str, node.specifiers,
                        "ImportSpecifier")
  ELSE IF /\ type = "ExportNamedDeclaration"
          /\ ~IsNull(node.source)
          /\ node.source.type = "Literal"
  THEN SpecifierMembers(memberAccesses, node.source.value.str, node.specifiers,
                        "ExportSpecifier")
  ELSE IF /\ type = "ExportAllDeclaration"
          /\ ~IsNull(node.source)
          /\ node.source.type = "Literal"
  THEN memberAccesses  \* console.error only
  ELSE IF type = "MemberExpression"
  THEN IF /\ node.property.type \in {"Literal", "Identifier"}
          /\ node.object.type = "Identifier"
       THEN LET modRefVar == getModRefVarNamed(envs, e, node.object.name)
            IN  IF modRefVar # NoVar
                THEN SetAdd(memberAccesses,
                            JSString(Dot(VarAt(envs, modRefVar).module.str,
                                         PropertyText(node.property))))
                ELSE memberAccesses
       ELSE IF DirectRequireMember(node)
       THEN SetAdd(memberAccesses,
                   JSString(Dot(NameText(node.object.arguments[1]),
                                PropertyText(node.property))))
       ELSE memberAccesses
  ELSE IF type = "VariableDeclaration"
  THEN DeclarationMembers(memberAccesses, envs, e, node.declarations)
  ELSE memberAccesses

\* Whether trackMemberAccess ends in `throw Error("Unknown object pattern property type")`
trackMemberAccessThrows(node, type, envs, e) ==
  /\ type = "VariableDeclaration"
  /\ \E i \in 1..Len(node.declarations) :
        LET declarator == node.declarations[i]
        IN  /\ declarator.id.type = "ObjectPattern"
            /\ UnknownPropertyType(declarator.id.properties)
            /\ \/ RequireInit(declarator.init)
               \/ /\ ~RequireInit(declarator.init)
                  /\ ~IsNull(declarator.init)
                  /\ declarator.init.type = "Identifier"
                  /\ getModRefVarNamed(envs, e, declarator.init.name) # NoVar

----------------------------------------------------------------------------
(* extractGlobals.js: the globals extractor *)

\* globalNames.js: the known platform global names
globalNames == {"console", "process"}

Includes(nodes, node) == \E i \in 1..Len(nodes) : nodes[i].uid = node.uid

\* ancestors ends with node itself
inGlobalNamespace(node, ancestors) ==
  IF Len(ancestors) < 2 THEN TRUE
  ELSE LET parent == Anc(ancestors, 2)
       IN  IF parent.type = "MemberExpression" /\ parent.property.uid = node.uid
             THEN FALSE
           ELSE IF /\ parent.type \in {"Function", "FunctionExpression", "FunctionDeclaration"}
                   /\ Includes(parent.params, node)
             THEN FALSE
           ELSE IF parent.type = "MethodDefinition" /\ parent.key.uid = node.uid
             THEN FALSE
           ELSE IF parent.type = "FunctionDeclaration" /\ parent.id.uid = node.uid
             THEN FALSE
           ELSE IF parent.type = "VariableDeclarator" /\ parent.id.uid = node.uid
             THEN FALSE
           ELSE IF Len(ancestors) < 3
             THEN TRUE
           ELSE IF parent.type = "ArrayPattern" /\ Includes(parent.elements, node)
             THEN FALSE
           ELSE IF /\ parent.type = "Property"
                   /\ Anc(ancestors, 3).type = "ObjectPattern"
                   /\ Includes(Anc(ancestors, 3).properties, parent)
             THEN FALSE
           ELSE TRUE

isGlobal(node, envs, e, ancestors) ==
  /\ node.type = "Identifier"
  /\ node.name \in globalNames
  /\ ~hasVarNamed(envs, e, node.name)
  /\ inGlobalNamespace(node, ancestors)

\* trackGlobals blind to the initialiser of a declarator
trackGlobalsOutsideDeclarators(node, type, envs, e, ancestors, globals) ==
  IF /\ type = "Identifier"
     /\ isGlobal(node, envs, e, ancestors)
     /\ ~(Len(ancestors) >= 2 /\ Anc(ancestors, 2).type = "VariableDeclarator")
  THEN Append(globals, [name |-> node.name, start |-> node.uid])
  ELSE globals

\* globals is the array of Identifier(name, start, end) objects
trackGlobals(node, type, envs, e, ancestors, globals) ==
  IF type = "Identifier" /\ isGlobal(node, envs, e, ancestors)
  THEN Append(globals, [name |-> node.name, start |-> node.uid])
  ELSE globals

RECURSIVE GlobalObjectPatternMembers(_, _, _)
GlobalObjectPatternMembers(globalMembers, init, properties) ==
  IF properties = <<>> THEN globalMembers
  ELSE LET property == Head(properties)
           next == IF property.type = "Property"
                   THEN SetAdd(globalMembers,
                               JSString(Dot(NameText(init), NameText(property.key))))
                   ELSE globalMembers
       IN  GlobalObjectPatternMembers(next, init, Tail(properties))

RECURSIVE GlobalIndexMembers(_, _, _, _)
\* The loop over declarator.id.elements, from index i on: elided slots add nothing
GlobalIndexMembers(globalMembers, init, elements, i) ==
  IF i >= Len(elements) THEN globalMembers
  ELSE GlobalIndexMembers(
         IF ~IsNull(elements[i + 1])
         THEN SetAdd(globalMembers, JSString(Dot(NameText(init), IndexText(i))))
         ELSE globalMembers,
         init, elements, i + 1)

GlobalDeclaratorMembers(globalMembers, envs, e, ancestors, declarator) ==
  IF /\ declarator.id.type = "ObjectPattern"
     /\ ~IsNull(declarator.init)
     /\ isGlobal(declarator.init, envs, e, ancestors \o <<declarator, declarator.init>>)
  THEN GlobalObjectPatternMembers(globalMembers, declarator.init, declarator.id.properties)
  ELSE IF /\ declarator.id.type = "ArrayPattern"
          /\ ~IsNull(declarator.init)
          /\ isGlobal(declarator.init, envs, e, ancestors \o <<declarator, declarator.init>>)
  THEN GlobalIndexMembers(globalMembers, declarator.init, declarator.id.elements, 0)
  ELSE globalMembers

RECURSIVE GlobalDeclarationMembers(_, _, _, _, _)
GlobalDeclarationMembers(globalMembers, envs, e, ancestors, declarations) ==
  IF declarations = <<>> THEN globalMembers
  ELSE GlobalDeclarationMembers(
         GlobalDeclaratorMembers(globalMembers, envs, e, ancestors, Head(declarations)),
         envs, e, ancestors, Tail(declarations))

trackGlobalMembers(node, type, envs, e, ancestors, globalMembers) ==
  IF type = "MemberExpression"
  THEN IF /\ node.property.type \in {"Identifier", "Literal"}
          /\ isGlobal(node.object, envs, e, ancestors \o <<node.object>>)
       THEN SetAdd(globalMembers,
                   JSString(Dot(NameText(node.object), PropertyText(node.property))))
       ELSE globalMembers
  ELSE IF type = "VariableDeclaration"
  THEN GlobalDeclarationMembers(globalMembers, envs, e, ancestors, node.declarations)
  ELSE globalMembers

\* null.toString() on a null literal property, or an unknown object pattern property
trackGlobalMembersThrows(node, type, envs, e, ancestors) ==
  \/ /\ type = "MemberExpression"
     /\ node.property.type = "Literal"
     /\ node.property.value = NullValue
     /\ isGlobal(node.object, envs, e, ancestors \o <<node.object>>)
  \/ /\ type = "VariableDeclaration"
     /\ \E i \in 1..Len(node.declarations) :
           LET declarator == node.declarations[i]
           IN  /\ declarator.id.type = "ObjectPattern"
               /\ ~IsNull(declarator.init)
               /\ isGlobal(declarator.init, envs, e,
                           ancestors \o <<declarator, declarator.init>>)
               /\ UnknownPropertyType(declarator.id.properties)

----------------------------------------------------------------------------
(* extractModules.js: extractImportsFromAST, on acorn_walk.simple *)

RECURSIVE SimpleVisits(_, _)
\* acorn_walk.simple: the (node, type) pairs in the order the visitors see them,
\* a node's children before the node
SimpleVisits(node, override) ==
  LET type == IF override = "" THEN node.type ELSE override
      calls == base(type, node)
  IN  Flat([i \in 1..Len(calls) |-> SimpleVisits(calls[i].node, calls[i].override)])
        \o <<[node |-> node, type |-> type]>>

\* extractImportsFromAST with the visitors of require calls only
RequireVisitor(imports, node, type) ==
  IF /\ type \in {"NewExpression", "CallExpression"}
     /\ node.callee.type = "Identifier"
     /\ node.callee.name = "require"
     /\ Len(node.arguments) >= 1
     /\ node.arguments[1].type = "Literal"
  THEN SetAdd(imports, node.arguments[1].value)
  ELSE imports

\* What one visitor call adds to imports
ImportVisitor(imports, node, type) ==
  CASE type \in {"NewExpression", "CallExpression"} ->
         IF /\ node.callee.type = "Identifier"
            /\ node.callee.name = "require"
            /\ Len(node.arguments) >= 1
            /\ node.arguments[1].type = "Literal"
         THEN SetAdd(imports, node.arguments[1].value)
         ELSE imports
    [] type \in {"ImportDeclaration", "ImportExpression", "ExportAllDeclaration"} ->
         IF node.source.type = "Literal" THEN SetAdd(imports, node.source.value) ELSE imports
    [] type = "ExportNamedDeclaration" ->
         IF ~IsNull(node.source) /\ node.source.type = "Literal"
         THEN SetAdd(imports, node.source.value)
         ELSE imports
    [] OTHER -> imports

RECURSIVE ImportVisitors(_, _)
ImportVisitors(imports, visits) ==
  IF visits = <<>> THEN imports
  ELSE ImportVisitors(ImportVisitor(imports, Head(visits).node, Head(visits).type),
                      Tail(visits))

extractImportsFromAST(tree) == ImportVisitors(<<>>, SimpleVisits(tree, ""))

----------------------------------------------------------------------------
(* astUtils.js buildTree: the parser is acorn; a file's content is modelled *)
(* by whether it parses and the statements it parses to.                   *)

(* A leading "#!" line is no JavaScript: the parser rejects it.             *)

Content(parses, body) == [hashbang |-> FALSE, parses |-> parses, body |-> body]

Hashbang(content) == [content EXCEPT !.hashbang = TRUE]

\* buildTree without the try: whatever the text, a tree comes back
buildTreeOfAnyText(content) == Program(content.body)

buildTree(content) ==
  IF ~content.hashbang /\ content.parses THEN Program(content.body) ELSE Null

----------------------------------------------------------------------------
(* fs and path.  A name is a string, so "index.js" is <<"index", "js">> and *)
(* ".git" is <<"", "git">>; a path is the sequence of its names, path.join  *)
(* is concatenation and <<>> is "/".  A directory holds its entries in the  *)
(* order readdirSync returns them.                                         *)

File(name, content) == [name |-> name, kind |-> "file", content |-> content]

Directory(name, entries) == [name |-> name, kind |-> "directory", entries |-> entries]

\* A directory entry that is neither a file nor a directory: a symbolic link, a socket
Other(name) == [name |-> name, kind |-> "other"]

NoEntry == [kind |-> "none"]

node_modules == <<"node_modules">>

RECURSIVE Lookup(_, _)
\* What a path leads to, from the entries of a directory
Lookup(entries, path) ==
  LET hits == {i \in 1..Len(entries) : entries[i].name = Head(path)}
  IN  IF hits = {} THEN NoEntry
      ELSE LET entry == entries[CHOOSE i \in hits : TRUE]
           IN  IF Len(path) = 1 THEN entry
               ELSE IF entry.kind = "directory" THEN Lookup(entry.entries, Tail(path))
               ELSE NoEntry

\* fs.existsSync of a filesystem that holds whatever is asked for
existsSyncAnywhere(d, path) == TRUE

existsSync(d, path) == path = <<>> \/ Lookup(d, path).kind # "none"

readdirSync(d, dirPath) == IF dirPath = <<>> THEN d ELSE Lookup(d, dirPath).entries

\* readdirSync throws ENOENT or ENOTDIR
readdirSyncThrows(d, dirPath) == dirPath # <<>> /\ Lookup(d, dirPath).kind # "directory"

readFileSync(d, filePath) == Lookup(d, filePath).content

\* name.endsWith('.' + ext), ext holding no dot
endsWith(name, ext) == Len(name) >= 2 /\ name[Len(name)] = ext

\* isJsFileName without .mjs and .cjs
isDotJs(name) == endsWith(name, "js")

isJsFileName(name) == endsWith(name, "js") \/ endsWith(name, "mjs") \/ endsWith(name, "cjs")

RECURSIVE forEachDirEntry(_, _)
\* The forEach of recursiveGetJSFilePaths over the entries of dirPath; a name holds
\* no '/', so name.split('/').pop() is the name
forEachDirEntry(dirPath, entries) ==
  IF entries = <<>> THEN <<>>
  ELSE LET dirEntry == Head(entries)
           fullPath == Append(dirPath, dirEntry.name)
           found == IF dirEntry.kind = "directory" /\ dirEntry.name # node_modules
                    THEN forEachDirEntry(fullPath, dirEntry.entries)
                    ELSE IF dirEntry.kind = "file" /\ isJsFileName(dirEntry.name)
                    THEN <<fullPath>>
                    ELSE <<>>
       IN  found \o forEachDirEntry(dirPath, Tail(entries))

recursiveGetJSFilePaths(d, dirPath) == forEachDirEntry(dirPath, readdirSync(d, dirPath))

removeFirstLine(content) == [content EXCEPT !.hashbang = FALSE]

getASTFromPath(d, filePath) ==
  LET content == readFileSync(d, filePath)
  IN  buildTree(IF content.hashbang THEN removeFirstLine(content) ELSE content)

Max(S) == CHOOSE i \in S : \A j \in S : i >= j

\* The last element of path.split('node_modules/'); no name of the model ends in
\* "node_modules" but node_modules itself
LastPathPart(path) ==
  LET hits == {i \in 1..(Len(path) - 1) : path[i] = node_modules}
  IN  IF hits = {} THEN path ELSE SubSeq(path, Max(hits) + 1, Len(path))

----------------------------------------------------------------------------
(* dependencyGraph.js.  A package name is the relative path it installs    *)
(* to ("lodash", "@babel/core").  An element of an edge list is a value:   *)
(* a path, or undefined.                                                   *)

PathValue(path) == [typeof |-> "string", path |-> path]

Undefined == [typeof |-> "undefined"]

\* array.concat(o[k]): o[k] is an array, or undefined and then one element
ConcatGet(array, o, k) ==
  IF ObjHas(o, k) THEN array \o ObjGet(o, k) ELSE Append(array, Undefined)

\* An entry of the "dependencies" tree of a version 1 lockfile
LockEntry(optional, requires, dependencies) ==
  [optional |-> optional, requires |-> requires, dependencies |-> dependencies]

RECURSIVE addPackagePathsToMap(_, _, _, _)
addPackagePathsToMap(d, packagePathsMap, packages, nodeModulesPath) ==
  IF packages = <<>> THEN packagePathsMap
  ELSE LET packageName == Head(packages).key
           packagePath == nodeModulesPath \o packageName
           listed == IF ObjHas(packagePathsMap, packageName) THEN packagePathsMap
                     ELSE ObjSet(packagePathsMap, packageName, <<>>)
           pushed == ObjSet(listed, packageName,
                            Append(ObjGet(listed, packageName), PathValue(packagePath)))
       IN  IF Head(packages).value.optional /\ ~existsSync(d, packagePath)
           THEN addPackagePathsToMap(d, listed, Tail(packages), nodeModulesPath)
           ELSE addPackagePathsToMap(d,
                  addPackagePathsToMap(d, pushed, Head(packages).value.dependencies,
                                       Append(packagePath, node_modules)),
                  Tail(packages), nodeModulesPath)

buildPackagePathsMapVersion1(d, lock, nodeModulesPath) ==
  addPackagePathsToMap(d, <<>>, lock.dependencies, nodeModulesPath)

RECURSIVE ConcatAll(_, _, _)
\* The loop that concats packagePathsMap[dependencyName] for every dependency name
ConcatAll(array, packagePathsMap, dependencyNames) ==
  IF dependencyNames = <<>> THEN array
  ELSE ConcatAll(ConcatGet(array, packagePathsMap, Head(dependencyNames)), packagePathsMap,
                 Tail(dependencyNames))

RECURSIVE addDependenciesToMap(_, _, _, _, _)
addDependenciesToMap(d, depMap, packagePathsMap, packages, nodeModulesPath) ==
  IF packages = <<>> THEN depMap
  ELSE LET packageName == Head(packages).key
           packagePath == nodeModulesPath \o packageName
           added == ObjSet(depMap, packagePath,
                           ConcatAll(<<>>, packagePathsMap, Head(packages).value.requires))
       IN  IF Head(packages).value.optional /\ ~existsSync(d, packagePath)
           THEN addDependenciesToMap(d, depMap, packagePathsMap, Tail(packages),
                                     nodeModulesPath)
           ELSE addDependenciesToMap(d,
                  addDependenciesToMap(d, added, packagePathsMap,
                                       Head(packages).value.dependencies,
                                       Append(packagePath, node_modules)),
                  packagePathsMap, Tail(packages), nodeModulesPath)

dependencyMapFromLockfileVersion1(d, lock, manifest, rootPath) ==
  LET nodeModulesPath == Append(rootPath, node_modules)
      packagePathsMap == buildPackagePathsMapVersion1(d, lock, nodeModulesPath)
      rooted == ObjSet(<<>>, rootPath, ConcatAll(<<>>, packagePathsMap, manifest.dependencies))
  IN  addDependenciesToMap(d, rooted, packagePathsMap, lock.dependencies, nodeModulesPath)

RECURSIVE PackagePaths2or3(_, _, _, _)
\* The loop of buildPackagePathsMapVersion2or3 over Object.keys(packages)
PackagePaths2or3(d, packagePathsMap, relativePackagePaths, rootPath) ==
  IF relativePackagePaths = <<>> THEN packagePathsMap
  ELSE LET packagePath == rootPath \o Head(relativePackagePaths)
           packageName == LastPathPart(packagePath)
           listed == IF ObjHas(packagePathsMap, packageName) THEN packagePathsMap
                     ELSE ObjSet(packagePathsMap, packageName, <<>>)
           pushed == ObjSet(listed, packageName,
                            Append(ObjGet(listed, packageName), PathValue(packagePath)))
       IN  PackagePaths2or3(d, IF existsSync(d, packagePath) THEN pushed ELSE listed,
                            Tail(relativePackagePaths), rootPath)

buildPackagePathsMapVersion2or3(d, lock, rootPath) ==
  PackagePaths2or3(d, <<>>, ObjKeys(lock.packages), rootPath)

RECURSIVE ConcatOwn(_, _, _)
\* The loop that concats for the dependency names packagePathsMap has as own property
ConcatOwn(array, packagePathsMap, dependencyNames) ==
  IF dependencyNames = <<>> THEN array
  ELSE ConcatOwn(IF ObjHas(packagePathsMap, Head(dependencyNames))
                 THEN array \o ObjGet(packagePathsMap, Head(dependencyNames))
                 ELSE array,
                 packagePathsMap, Tail(dependencyNames))

RECURSIVE Dependencies2or3(_, _, _, _, _)
\* The loop of dependencyMapFromLockfileVersion2or3 over Object.keys(packages)
Dependencies2or3(d, depMap, packagePathsMap, packages, rootPath) ==
  IF packages = <<>> THEN depMap
  ELSE LET packagePath == rootPath \o Head(packages).key
           added == ObjSet(depMap, packagePath,
                           ConcatOwn(<<>>, packagePathsMap, Head(packages).value.dependencies))
       IN  Dependencies2or3(d, IF existsSync(d, packagePath) THEN added ELSE depMap,
                            packagePathsMap, Tail(packages), rootPath)

dependencyMapFromLockfileVersion2or3(d, lock, rootPath) ==
  Dependencies2or3(d, <<>>, buildPackagePathsMapVersion2or3(d, lock, rootPath),
                   lock.packages, rootPath)

\* The switch has no default: any other version leaves the map empty
getDependencyMap(d, lock, manifest, rootPath) ==
  CASE lock.lockfileVersion = 1 ->
         dependencyMapFromLockfileVersion1(d, lock, manifest, rootPath)
    [] lock.lockfileVersion \in {2, 3} ->
         dependencyMapFromLockfileVersion2or3(d, lock, rootPath)
    [] OTHER -> <<>>

----------------------------------------------------------------------------
(* main.js: what a package accesses, and the policy *)

\* mod.builtinModules of the host; none of its names holds a dot
NATIVE_MODULES == <<JSString(<<"fs">>), JSString(<<"path">>)>>

MemberAccess(module, memberName) == [module |-> module, memberName |-> memberName]

\* splits.splice(0, splits.length - 1).join('.') and what is left of splits
fromString(accessString) ==
  LET splits == accessString
      n == Len(splits)
  IN  MemberAccess(IF n = 1 THEN <<"">> ELSE SubSeq(splits, 1, n - 1), <<splits[n]>>)

toString(memberAccess) == Dot(memberAccess.module, memberAccess.memberName)

\* getMemberAccessesForPackage without the filter on NATIVE_MODULES
KeepMemberAccesses(moduleMemberAccesses) == moduleMemberAccesses

\* The map, filter, map of getMemberAccessesForPackage.  The objects in between are
\* distinct, one per string; the strings at the end are a Set again.
FilterNativeMemberAccesses(moduleMemberAccesses) ==
  LET objects == [i \in 1..Len(moduleMemberAccesses) |->
                    fromString(moduleMemberAccesses[i].str)]
      native == SelectSeq(objects, LAMBDA m : SetHas(NATIVE_MODULES, JSString(m.module)))
  IN  NewSet([i \in 1..Len(native) |-> JSString(toString(native[i]))])

\* createGranularPolicy keeping the last copy only
SortedWithoutUnion(existing, set) == ArraySort(set)

\* The two arrays one after the other, sorted
ConcatSorted(existing, set) == ArraySort(existing \o set)

\* Array.from(new Set(existing).union(set)).sort()
UnionSorted(existing, set) == ArraySort(setUnion(NewSet(existing), set))

RECURSIVE GranularPolicy(_, _, _, _)
\* The loop of createGranularPolicy over Object.keys(capabilities)
GranularPolicy(policy, capabilities, rootPath, rootPackageName) ==
  IF capabilities = <<>> THEN policy
  ELSE LET packagePath == Head(capabilities).key
           capability == Head(capabilities).value
           lastPart == LastPathPart(packagePath)
           packageName == IF lastPart = rootPath THEN rootPackageName ELSE lastPart
           entry == IF ObjHas(policy, packageName)
                    THEN [modules |-> UnionSorted(ObjGet(policy, packageName).modules,
                                                  capability.modules),
                          globals |-> UnionSorted(ObjGet(policy, packageName).globals,
                                                  capability.globals)]
                    ELSE [modules |-> ArraySort(capability.modules),
                          globals |-> ArraySort(capability.globals)]
       IN  GranularPolicy(ObjSet(policy, packageName, entry), Tail(capabilities), rootPath,
                          rootPackageName)

createGranularPolicy(capabilities, rootPath, rootPackageName) ==
  GranularPolicy(<<>>, capabilities, rootPath, rootPackageName)

createPolicy(capabilities, rootPath, rootPackageName, memberAccessTracing) ==
  [memberAccessTracing |-> memberAccessTracing = TRUE,
   policyCoarse |-> createGranularPolicy(capabilities.capabilitiesCoarse, rootPath,
                                         rootPackageName),
   policyFine |-> createGranularPolicy(capabilities.capabilitiesFine, rootPath,
                                       rootPackageName)]

----------------------------------------------------------------------------
VARIABLES
  disk,                \* the directories and files on disk
  lockfile,            \* the parsed lockfile
  packageJson,         \* the root package's parsed manifest
  argv,                \* the command line options
  pc,                  \* where main() is
  ret,                 \* where the running traversal returns to
  dependencyMap,
  queue,               \* the package paths getCapabilitiesFromDependencyMap has still to do
  pkg,                 \* the locals of get(Member)AccessesForPackage
  capabilitiesCoarse,
  capabilitiesFine,
  newPolicy,
  history,             \* the previous run's policy and what changed since
  ast,                 \* the AST of the file being analysed
  returned,            \* the value the last traversal returned
  stack,               \* the activations of the traversal's closure c
  ancestors,
  envs,
  env,
  globals,
  globalMembers,
  memberAccesses

inputVars == <<disk, lockfile, packageJson, argv>>

mainVars == <<dependencyMap, queue, pkg, capabilitiesCoarse, capabilitiesFine, newPolicy,
              history>>

walkVars == <<stack, ancestors, envs, env, globals, globalMembers, memberAccesses>>

vars == <<inputVars, mainVars, walkVars, pc, ret, ast, returned>>

----------------------------------------------------------------------------
(* The traversal closure c(node, st, override) of findGlobalsInAST and of  *)
(* extractMemberAccesses, one activation per frame.                        *)

Frame(node, type, isNew, prev_env, todo) ==
  [node |-> node, type |-> type, isNew |-> isNew, prev_env |-> prev_env, todo |-> todo]

\* The frame of the function that owns the closure, about to call c(tree)
RootFrame(tree) == Frame(Null, "", FALSE, 0, <<Call(tree, "")>>)

Top == stack[Len(stack)]

NextCall == Head(Top.todo)

NextType == IF NextCall.override = "" THEN NextCall.node.type ELSE NextCall.override

NextIsNew == ancestors = <<>> \/ NextCall.node.uid # ancestors[Len(ancestors)].uid

NextAncestors == IF NextIsNew THEN Append(ancestors, NextCall.node) ELSE ancestors

\* The common head of both closures: ancestors, trackScope, trackVars
Scoped == trackScope(NextCall.node, NextType, NextAncestors, envs, env)

ScopedThrows ==
  \/ trackScopeThrows(NextType, NextAncestors)
  \/ trackVarsThrows(NextCall.node, NextType)

Push(newEnvs, newEnv) ==
  /\ stack' = [stack EXCEPT ![Len(stack)].todo = Tail(@)]
                \o <<Frame(NextCall.node, NextType, NextIsNew, env,
                           base(NextType, NextCall.node))>>
  /\ ancestors' = NextAncestors
  /\ envs' = newEnvs
  /\ env' = newEnv

\* The exception is caught and the traversal returns what it has
AbortCaught ==
  /\ pc' = ret
  /\ UNCHANGED <<walkVars, ret, returned>>

\* An uncaught exception ends the process
Abort ==
  /\ pc' = "aborted"
  /\ UNCHANGED <<walkVars, ret, returned>>

\* findGlobalsInAST: c up to and including the call of the base walker
GlobalsVisit ==
  /\ pc = "findGlobalsInAST"
  /\ stack # <<>> /\ Top.todo # <<>>
  /\ IF ScopedThrows THEN Abort
     ELSE LET tracked == trackVars(NextCall.node, NextType, Scoped.envs, Scoped.env)
          IN  IF trackGlobalMembersThrows(NextCall.node, NextType, tracked, Scoped.env,
                                          NextAncestors)
              THEN Abort
              ELSE /\ globals' = trackGlobals(NextCall.node, NextType, tracked, Scoped.env,
                                              NextAncestors, globals)
                   /\ globalMembers' = trackGlobalMembers(NextCall.node, NextType, tracked,
                                                          Scoped.env, NextAncestors,
                                                          globalMembers)
                   /\ Push(tracked, Scoped.env)
                   /\ UNCHANGED <<memberAccesses, pc, ret, returned>>
  /\ UNCHANGED <<inputVars, mainVars, ast>>

\* extractMemberAccesses: c up to and including the call of the base walker
MembersVisit ==
  /\ pc = "extractMemberAccesses"
  /\ stack # <<>> /\ Top.todo # <<>>
  /\ IF ScopedThrows THEN Abort
     ELSE LET tracked == trackModuleReferencingVars(NextCall.node, NextType,
                           trackVars(NextCall.node, NextType, Scoped.envs, Scoped.env),
                           Scoped.env)
          IN  IF trackMemberAccessThrows(NextCall.node, NextType, tracked, Scoped.env)
              THEN Abort
              ELSE /\ memberAccesses' = trackMemberAccess(NextCall.node, NextType, tracked,
                                                          Scoped.env, memberAccesses)
                   /\ Push(tracked, Scoped.env)
                   /\ UNCHANGED <<globals, globalMembers, pc, ret, returned>>
  /\ UNCHANGED <<inputVars, mainVars, ast>>

\* The tail of c without the return to the previous environment
LeaveInScope ==
  /\ pc \in {"findGlobalsInAST", "extractMemberAccesses"}
  /\ Len(stack) > 1 /\ Top.todo = <<>>
  /\ ancestors' = IF Top.isNew THEN SubSeq(ancestors, 1, Len(ancestors) - 1) ELSE ancestors
  /\ stack' = SubSeq(stack, 1, Len(stack) - 1)
  /\ UNCHANGED <<envs, env, globals, globalMembers, memberAccesses, pc, ret, returned>>
  /\ UNCHANGED <<inputVars, mainVars, ast>>

\* The tail of c, after the base walker returned: leave the scope, pop the ancestor
Leave ==
  /\ pc \in {"findGlobalsInAST", "extractMemberAccesses"}
  /\ Len(stack) > 1 /\ Top.todo = <<>>
  /\ env' = IF Top.type = "BlockStatement" THEN Top.prev_env ELSE env
  /\ ancestors' = IF Top.isNew THEN SubSeq(ancestors, 1, Len(ancestors) - 1) ELSE ancestors
  /\ stack' = SubSeq(stack, 1, Len(stack) - 1)
  /\ UNCHANGED <<envs, globals, globalMembers, memberAccesses, pc, ret, returned>>
  /\ UNCHANGED <<inputVars, mainVars, ast>>

\* The locals of a traversal that is not running
Idle ==
  /\ stack = <<>> /\ ancestors = <<>> /\ envs = <<>> /\ env = 0
  /\ globals = <<>> /\ globalMembers = <<>> /\ memberAccesses = <<>>

\* The locals go out of scope when the function returns
Reset ==
  /\ stack' = <<>> /\ ancestors' = <<>> /\ envs' = <<>> /\ env' = 0
  /\ globals' = <<>> /\ globalMembers' = <<>> /\ memberAccesses' = <<>>

\* The call of findGlobalsInAST(tree) or extractMemberAccesses(tree)
Enter(tree) ==
  /\ stack' = <<RootFrame(tree)>>
  /\ ancestors' = <<>> /\ envs' = <<>> /\ env' = 0
  /\ globals' = <<>> /\ globalMembers' = <<>> /\ memberAccesses' = <<>>

\* findGlobalsInAST returns {globals: globalsSet, globalMembers}
GlobalsReturn ==
  /\ pc = "findGlobalsInAST"
  /\ Len(stack) = 1 /\ Top.todo = <<>>
  /\ returned' = [globals |-> NewSet([i \in 1..Len(globals) |-> JSString(Str(globals[i].name))]),
                  globalMembers |-> globalMembers,
                  memberAccesses |-> <<>>]
  /\ Reset
  /\ pc' = ret
  /\ UNCHANGED <<inputVars, mainVars, ast, ret>>

\* extractMemberAccesses returns memberAccesses
MembersReturn ==
  /\ pc = "extractMemberAccesses"
  /\ Len(stack) = 1 /\ Top.todo = <<>>
  /\ returned' = [globals |-> <<>>, globalMembers |-> <<>>, memberAccesses |-> memberAccesses]
  /\ Reset
  /\ pc' = ret
  /\ UNCHANGED <<inputVars, mainVars, ast, ret>>

----------------------------------------------------------------------------
(* main(), getCapabilitiesFromDependencyMap and the two per-package        *)
(* functions, one action per stretch of code between two traversals.  A    *)
(* flag of argv that was not given is FALSE here (undefined in the code,   *)
(* which only tests the flags for truth and for === true); inPath is       *)
(* absolute, so path.resolve leaves it as it is.                           *)

rootPath == argv._[1]

rootPackageName == packageJson.name

NoPackage ==
  [packagePath |-> <<>>, jsFilePaths |-> <<>>, modules |-> <<>>, globals |-> <<>>,
   fileModules |-> <<>>, moduleMemberAccesses |-> <<>>, globalMemberAccesses |-> <<>>,
   fileModuleMemberAccesses |-> <<>>]

NoPolicy == [memberAccessTracing |-> FALSE, policyCoarse |-> <<>>, policyFine |-> <<>>]

NothingReturned == [globals |-> <<>>, globalMembers |-> <<>>, memberAccesses |-> <<>>]

\* main up to the call of getCapabilitiesFromDependencyMap
Main ==
  /\ pc = "main"
  /\ IF argv._ = <<>> \/ argv.h
     THEN /\ pc' = "exit"
          /\ UNCHANGED <<dependencyMap, queue>>
     ELSE /\ dependencyMap' = getDependencyMap(disk, lockfile, packageJson, rootPath)
          /\ queue' = ObjKeys(dependencyMap')
          /\ pc' = "getCapabilitiesFromDependencyMap"
  /\ UNCHANGED <<pkg, capabilitiesCoarse, capabilitiesFine, newPolicy, history>>
  /\ UNCHANGED <<inputVars, walkVars, ret, ast, returned>>

\* The head of the loop over Object.keys(dependencyMap), into getAccessesForPackage
GetCapabilitiesFromDependencyMap ==
  /\ pc = "getCapabilitiesFromDependencyMap"
  /\ queue # <<>>
  /\ queue' = Tail(queue)
  /\ IF readdirSyncThrows(disk, Head(queue))
     THEN /\ pc' = "aborted"
          /\ UNCHANGED pkg
     ELSE /\ pkg' = [NoPackage EXCEPT !.packagePath = Head(queue),
                                      !.jsFilePaths = recursiveGetJSFilePaths(disk, Head(queue))]
          /\ pc' = "getAccessesForPackage"
  /\ UNCHANGED <<dependencyMap, capabilitiesCoarse, capabilitiesFine, newPolicy, history>>
  /\ UNCHANGED <<inputVars, walkVars, ret, ast, returned>>

\* getAccessesForPackage, the loop body up to the call of extractGlobals
GetAccessesForPackageFile ==
  /\ pc = "getAccessesForPackage"
  /\ pkg.jsFilePaths # <<>>
  /\ ast' = getASTFromPath(disk, Head(pkg.jsFilePaths))
  /\ IF IsNull(ast')
     THEN /\ pkg' = [pkg EXCEPT !.jsFilePaths = Tail(@)]
          /\ UNCHANGED <<walkVars, pc, ret>>
     ELSE /\ pkg' = [pkg EXCEPT !.fileModules = extractImportsFromAST(ast')]
          /\ Enter(ast')
          /\ pc' = "findGlobalsInAST"
          /\ ret' = "getAccessesForPackage:union"
  /\ UNCHANGED <<dependencyMap, queue, capabilitiesCoarse, capabilitiesFine, newPolicy,
                 history>>
  /\ UNCHANGED <<inputVars, returned>>

\* getAccessesForPackage, the rest of the loop body
GetAccessesForPackageUnion ==
  /\ pc = "getAccessesForPackage:union"
  /\ pkg' = [pkg EXCEPT !.modules = setUnion(@, pkg.fileModules),
                        !.globals = setUnion(@, returned.globals),
                        !.fileModules = <<>>,
                        !.jsFilePaths = Tail(@)]
  /\ pc' = "getAccessesForPackage"
  /\ UNCHANGED <<dependencyMap, queue, capabilitiesCoarse, capabilitiesFine, newPolicy,
                 history>>
  /\ UNCHANGED <<inputVars, walkVars, ret, ast, returned>>

\* getAccessesForPackage after the loop, and getCapabilitiesFromDependencyMap up to
\* the loop of getMemberAccessesForPackage
GetAccessesForPackageReturn ==
  /\ pc = "getAccessesForPackage"
  /\ pkg.jsFilePaths = <<>>
  /\ LET modules == IF ~argv.customModules
                    THEN setIntersection(pkg.modules, NATIVE_MODULES)
                    ELSE pkg.modules
     IN  capabilitiesCoarse' = ObjSet(capabilitiesCoarse, pkg.packagePath,
                                      [modules |-> modules, globals |-> pkg.globals])
  /\ IF argv.memberAccessTracing = TRUE
     THEN /\ pkg' = [NoPackage EXCEPT
                       !.packagePath = pkg.packagePath,
                       !.jsFilePaths = recursiveGetJSFilePaths(disk, pkg.packagePath)]
          /\ pc' = "getMemberAccessesForPackage"
     ELSE /\ pkg' = NoPackage
          /\ pc' = "getCapabilitiesFromDependencyMap"
  /\ UNCHANGED <<dependencyMap, queue, capabilitiesFine, newPolicy, history>>
  /\ UNCHANGED <<inputVars, walkVars, ret, ast, returned>>

\* getMemberAccessesForPackage, the loop body up to the call of extractMemberAccesses
GetMemberAccessesForPackageFile ==
  /\ pc = "getMemberAccessesForPackage"
  /\ pkg.jsFilePaths # <<>>
  /\ ast' = getASTFromPath(disk, Head(pkg.jsFilePaths))
  /\ IF IsNull(ast')
     THEN /\ pkg' = [pkg EXCEPT !.jsFilePaths = Tail(@)]
          /\ UNCHANGED <<walkVars, pc, ret>>
     ELSE /\ Enter(ast')
          /\ pc' = "extractMemberAccesses"
          /\ ret' = "getMemberAccessesForPackage:globals"
          /\ UNCHANGED pkg
  /\ UNCHANGED <<dependencyMap, queue, capabilitiesCoarse, capabilitiesFine, newPolicy,
                 history>>
  /\ UNCHANGED <<inputVars, returned>>

\* getMemberAccessesForPackage, from one traversal to the other
GetMemberAccessesForPackageGlobals ==
  /\ pc = "getMemberAccessesForPackage:globals"
  /\ pkg' = [pkg EXCEPT !.fileModuleMemberAccesses = returned.memberAccesses]
  /\ Enter(ast)
  /\ pc' = "findGlobalsInAST"
  /\ ret' = "getMemberAccessesForPackage:union"
  /\ UNCHANGED <<dependencyMap, queue, capabilitiesCoarse, capabilitiesFine, newPolicy,
                 history>>
  /\ UNCHANGED <<inputVars, ast, returned>>

\* getMemberAccessesForPackage, the rest of the loop body
GetMemberAccessesForPackageUnion ==
  /\ pc = "getMemberAccessesForPackage:union"
  /\ pkg' = [pkg EXCEPT
               !.moduleMemberAccesses = setUnion(@, pkg.fileModuleMemberAccesses),
               !.globalMemberAccesses = setUnion(@, returned.globalMembers),
               !.fileModuleMemberAccesses = <<>>,
               !.jsFilePaths = Tail(@)]
  /\ pc' = "getMemberAccessesForPackage"
  /\ UNCHANGED <<dependencyMap, queue, capabilitiesCoarse, capabilitiesFine, newPolicy,
                 history>>
  /\ UNCHANGED <<inputVars, walkVars, ret, ast, returned>>

\* getMemberAccessesForPackage after the loop, back in getCapabilitiesFromDependencyMap
GetMemberAccessesForPackageReturn ==
  /\ pc = "getMemberAccessesForPackage"
  /\ pkg.jsFilePaths = <<>>
  /\ capabilitiesFine' =
       ObjSet(capabilitiesFine, pkg.packagePath,
              [modules |-> FilterNativeMemberAccesses(pkg.moduleMemberAccesses),
               globals |-> pkg.globalMemberAccesses])
  /\ pkg' = NoPackage
  /\ pc' = "getCapabilitiesFromDependencyMap"
  /\ UNCHANGED <<dependencyMap, queue, capabilitiesCoarse, newPolicy, history>>
  /\ UNCHANGED <<inputVars, walkVars, ret, ast, returned>>

\* getCapabilitiesFromDependencyMap returns; main calls createPolicy.  What main does
\* with newPolicy afterwards (the report against the old policy, the file it writes)
\* changes nothing of it.
CreatePolicy ==
  /\ pc = "getCapabilitiesFromDependencyMap"
  /\ queue = <<>>
  /\ newPolicy' = createPolicy([capabilitiesCoarse |-> capabilitiesCoarse,
                                capabilitiesFine |-> capabilitiesFine],
                               rootPath, rootPackageName, argv.memberAccessTracing)
  /\ pc' = "done"
  /\ UNCHANGED <<dependencyMap, queue, pkg, capabilitiesCoarse, capabilitiesFine, history>>
  /\ UNCHANGED <<inputVars, walkVars, ret, ast, returned>>

----------------------------------------------------------------------------
(* Source files for the traversal: a declaration, then uses, laid out flat, *)
(* in blocks or in a function.  b is the uid of a statement's first node.   *)

MaxUses == 1

Req(b, callType, value) ==
  [type |-> callType, uid |-> b, callee |-> Identifier(b + 1, "require"),
   arguments |-> <<Literal(b + 2, value)>>]

Shorthand(b, name) == Property(b, Identifier(b + 1, name), Identifier(b + 2, name))

Renamed(b, key, name) == Property(b, Identifier(b + 1, key), Identifier(b + 2, name))

Declare(b, kind, id, init) ==
  VariableDeclaration(b, kind, <<VariableDeclarator(b + 1, id, init)>>)

\* const fs = require('fs'), <id> = fs
DeclareFrom(b, id) ==
  VariableDeclaration(b, "const",
    <<VariableDeclarator(b + 1, Identifier(b + 2, "fs"),
                         Req(b + 3, "CallExpression", JSString(<<"fs">>))),
      VariableDeclarator(b + 6, id, Identifier(b + 7, "fs"))>>)

Decls(b) ==
  { Declare(b, "const", Identifier(b + 2, "fs"),
            Req(b + 3, "CallExpression", JSString(<<"fs">>))),
    Declare(b, "var", Identifier(b + 2, "fs"),
            Req(b + 3, "CallExpression", JSString(<<"lodash">>))),
    Declare(b, "const", Identifier(b + 2, "console"),
            Req(b + 3, "NewExpression", JSString(<<"fs">>))),
    DeclareFrom(b, Identifier(b + 8, "a")),
    Declare(b, "const", Identifier(b + 2, "process"), Identifier(b + 3, "console")),
    Declare(b, "let", Identifier(b + 2, "console"), Null),
    Declare(b, "const", ObjectPattern(b + 2, <<Shorthand(b + 6, "x"), Shorthand(b + 9, "y")>>),
            Req(b + 3, "CallExpression", JSString(<<"fs">>))),
    Declare(b, "const",
            ObjectPattern(b + 2, <<Shorthand(b + 6, "log"),
                                   RestElement(b + 9, Identifier(b + 10, "a"))>>),
            Identifier(b + 3, "console")),
    DeclareFrom(b, ObjectPattern(b + 8, <<Renamed(b + 9, "x", "a"),
                                          Shorthand(b + 12, "readFile")>>)),
    Declare(b, "const", ArrayPattern(b + 2, <<Identifier(b + 6, "a"), Identifier(b + 7, "b")>>),
            Req(b + 3, "CallExpression", JSString(<<"fs">>))),
    DeclareFrom(b, ArrayPattern(b + 8, <<Identifier(b + 9, "a"), Null,
                                         Identifier(b + 10, "b")>>)),
    Declare(b, "var",
            ArrayPattern(b + 2, <<Identifier(b + 6, "a"), Null, Identifier(b + 7, "b")>>),
            Identifier(b + 3, "console")) }

\* Import and export declarations, which the parser accepts at the top level only
ModuleDecls(b) ==
  { ImportDeclaration(b, <<ImportSpecifier(b + 1, Identifier(b + 2, "x"),
                                           Identifier(b + 3, "a"))>>,
                      Literal(b + 4, JSString(<<"fs">>))),
    ImportDeclaration(b, <<ImportDefaultSpecifier(b + 1, Identifier(b + 2, "fs"))>>,
                      Literal(b + 4, JSString(<<"lodash">>))),
    ImportDeclaration(b, <<ImportNamespaceSpecifier(b + 1, Identifier(b + 2, "console"))>>,
                      Literal(b + 4, JSString(<<"fs">>))),
    ExportNamedDeclaration(b, Null,
                           <<ExportSpecifier(b + 1, Identifier(b + 2, "x"),
                                             Identifier(b + 3, "x"))>>,
                           Literal(b + 4, JSString(<<"fs">>))),
    ExportAllDeclaration(b, Null, Literal(b + 4, JSString(<<"path">>))) }

Member(b, object, property, computed) ==
  ExpressionStatement(b, MemberExpression(b + 1, object, property, computed))

Uses(b) ==
  { Member(b, Identifier(b + 2, "console"), Identifier(b + 3, "log"), FALSE),
    Member(b, Identifier(b + 2, "fs"), Identifier(b + 3, "readFile"), FALSE),
    Member(b, Identifier(b + 2, "fs"), Literal(b + 3, JSString(<<"x", "y">>)), TRUE),
    Member(b, Identifier(b + 2, "process"), Literal(b + 3, JSNumber(<<"0">>)), TRUE),
    Member(b, Identifier(b + 2, "a"), Identifier(b + 3, "console"), TRUE),
    Member(b, Identifier(b + 2, "a"), Identifier(b + 3, "x"), FALSE),
    Member(b, Req(b + 4, "CallExpression", JSString(<<"fs">>)), Identifier(b + 3, "x"),
           FALSE),
    ExpressionStatement(b, Identifier(b + 1, "process")) }

\* uid of the first node of the i-th statement of a sequence that starts at b
Base(b, i) == b + 20 * (i - 1)

\* The sequences of 1..MaxUses uses, the first one at uid b
UseSeqs(b) ==
  UNION { {us \in [1..n -> UNION {Uses(Base(b, i)) : i \in 1..n}] :
             \A i \in 1..n : us[i] \in Uses(Base(b, i))} : n \in 1..MaxUses }

Func(b, param, body) ==
  FunctionDeclaration(b, Identifier(b + 1, "f"), <<Identifier(b + 2, param)>>,
                      BlockStatement(b + 3, body))

RequireFs(b) ==
  Declare(b, "const", Identifier(b + 2, "fs"), Req(b + 3, "CallExpression", JSString(<<"fs">>)))

\* Bodies with a declaration that shadows, a chain of aliases, a rest element,
\* exports, and a destructured global that is declared
Special ==
  { \* const fs = require('fs'); { let fs; fs.readFile }
    <<RequireFs(20),
      BlockStatement(10, <<Declare(100, "let", Identifier(102, "fs"), Null),
                           Member(40, Identifier(42, "fs"), Identifier(43, "readFile"),
                                  FALSE)>>)>>,
    \* const fs = require('fs'); const a = fs; const b = a; b.x
    <<RequireFs(20),
      Declare(100, "const", Identifier(102, "a"), Identifier(103, "fs")),
      Declare(110, "const", Identifier(112, "b"), Identifier(113, "a")),
      Member(40, Identifier(42, "b"), Identifier(43, "x"), FALSE)>>,
    \* let fs; const a = fs; a.x
    <<Declare(20, "let", Identifier(22, "fs"), Null),
      Declare(100, "const", Identifier(102, "a"), Identifier(103, "fs")),
      Member(40, Identifier(42, "a"), Identifier(43, "x"), FALSE)>>,
    \* const { x, ...y } = require('fs'); y.x
    <<Declare(20, "const",
              ObjectPattern(22, <<Shorthand(26, "x"),
                                  RestElement(29, Identifier(30, "y"))>>),
              Req(23, "CallExpression", JSString(<<"fs">>))),
      Member(40, Identifier(42, "y"), Identifier(43, "x"), FALSE)>>,
    \* export { x as y } from 'fs'
    <<ExportNamedDeclaration(20, Null,
                             <<ExportSpecifier(21, Identifier(22, "x"), Identifier(23, "y"))>>,
                             Literal(24, JSString(<<"fs">>)))>>,
    \* const fs = require('fs'); export { fs }
    <<RequireFs(20),
      ExportNamedDeclaration(100, Null,
                             <<ExportSpecifier(101, Identifier(102, "fs"),
                                               Identifier(103, "fs"))>>,
                             Null)>>,
    \* let console; const { log } = console
    <<Declare(20, "let", Identifier(22, "console"), Null),
      Declare(100, "const", ObjectPattern(102, <<Shorthand(106, "log")>>),
              Identifier(103, "console"))>>,
    \* function f(console) { const [a] = console }
    <<Func(10, "console",
           <<Declare(100, "const", ArrayPattern(102, <<Identifier(106, "a")>>),
                     Identifier(103, "console"))>>)>>,
    \* const [a, ...b] = console; const { x } = y
    <<Declare(20, "const",
              ArrayPattern(22, <<Identifier(26, "a"),
                                 RestElement(27, Identifier(28, "b"))>>),
              Identifier(23, "console")),
      Declare(100, "const", ObjectPattern(102, <<Shorthand(106, "x")>>),
              Identifier(103, "y"))>> }

\* function (param) { use }, (param) => { use }, (param) => use
Functions(b, param, use) ==
  { FunctionExpression(b, <<Identifier(b + 1, param)>>,
                       BlockStatement(b + 2, <<ExpressionStatement(40, use)>>)),
    ArrowFunctionExpression(b, <<Identifier(b + 1, param)>>,
                            BlockStatement(b + 2, <<ExpressionStatement(40, use)>>), FALSE),
    ArrowFunctionExpression(b, <<Identifier(b + 1, param)>>, use, TRUE) }

\* class A { m(param) { use } }
Class(b, param, use) ==
  ClassDeclaration(b, Identifier(b + 1, "A"),
    ClassBody(b + 2,
      <<MethodDefinition(b + 3, Identifier(b + 4, "m"),
          FunctionExpression(b + 5, <<Identifier(b + 6, param)>>,
                             BlockStatement(b + 7, <<ExpressionStatement(40, use)>>)))>>))

\* for (let name = 0;;) {}, for (const name of a) {}, for (const name in a) {}
Loops(b, name) ==
  { ForStatement(b, Declare(b + 1, "let", Identifier(b + 3, name),
                            Literal(b + 4, JSNumber(<<"0">>))),
                 BlockStatement(b + 5, <<>>)),
    ForOfStatement(b, Declare(b + 1, "const", Identifier(b + 3, name), Null),
                   Identifier(b + 4, "a"), BlockStatement(b + 5, <<>>)),
    ForInStatement(b, Declare(b + 1, "const", Identifier(b + 3, name), Null),
                   Identifier(b + 4, "a"), BlockStatement(b + 5, <<>>)) }

\* f = function (a) { { <kind> console } console.log }, as a declaration, an
\* arrow function and a method
Nested(b, kind) ==
  LET body == BlockStatement(b + 9,
                <<BlockStatement(10, <<Declare(20, kind, Identifier(22, "console"), Null)>>),
                  Member(40, Identifier(42, "console"), Identifier(43, "log"), FALSE)>>)
      a == <<Identifier(b + 8, "a")>>
  IN  { FunctionDeclaration(b, Identifier(b + 1, "f"), a, body),
        Declare(b, "const", Identifier(b + 2, "f"),
                ArrowFunctionExpression(b + 3, a, body, FALSE)),
        ClassDeclaration(b, Identifier(b + 1, "A"),
          ClassBody(b + 2, <<MethodDefinition(b + 3, Identifier(b + 4, "m"),
                                              FunctionExpression(b + 5, a, body))>>)) }

\* const fs = require('fs'), then a function or a method whose parameter is used in
\* its body; a function with a declaration in a block of its body, a use after the
\* block and a use after the function; a loop that declares a name in its head, then
\* a use of the name
Shapes ==
  LET members == {<<"fs", "readFile">>, <<"console", "log">>}
      use(m) == MemberExpression(41, Identifier(42, m[1]), Identifier(43, m[2]), FALSE)
  IN  {<<RequireFs(20), Declare(100, "const", Identifier(102, "g"), f)>> :
         f \in UNION {Functions(103, m[1], use(m)) : m \in members}}
      \cup {<<RequireFs(20), Class(100, m[1], use(m))>> : m \in members}
      \cup {<<f, Member(50, Identifier(52, "console"), Identifier(53, "log"), FALSE)>> :
              f \in UNION {Nested(100, kind) : kind \in {"var", "let"}}}
      \cup {<<RequireFs(20), loop, ExpressionStatement(40, use(m))>> :
              loop \in UNION {Loops(100, name) : name \in {"fs", "console"}},
              m \in members}

\* const a.b = console: a binding target of a shape identifiersFromNode does not know
UnknownTarget ==
  <<Declare(20, "const", MemberExpression(22, Identifier(26, "a"), Identifier(27, "b"), FALSE),
            Identifier(23, "console"))>>

\* const { <x> } = init with the bare identifier x in the place of a property
UnknownProperty(init) ==
  <<Declare(20, "const", ObjectPattern(22, <<Identifier(26, "x")>>), init)>>

\* Trees of shapes the pattern extractor and the destructuring tracers do not know
Unknown ==
  { UnknownTarget,
    UnknownProperty(Req(23, "CallExpression", JSString(<<"fs">>))),
    UnknownProperty(Identifier(23, "console")),
    \* const fs = require('fs'); const { <x> } = fs
    <<RequireFs(100)>> \o UnknownProperty(Identifier(23, "fs")),
    \* function f(a.b) {}
    <<FunctionDeclaration(10, Identifier(11, "f"),
                          <<MemberExpression(12, Identifier(14, "a"), Identifier(15, "b"),
                                             FALSE)>>,
                          BlockStatement(13, <<>>))>> }

\* The bodies of the source files of the traversal
Bodies ==
  LET D == Decls(20)
      U == UseSeqs(40)
  IN  U
      \cup {<<d>> \o us : d \in D \cup ModuleDecls(20), us \in U}
      \cup {<<BlockStatement(10, <<d>>)>> \o us : d \in D, us \in U}
      \cup {<<d, BlockStatement(10, us)>> : d \in D \cup ModuleDecls(20), us \in U}
      \cup {<<BlockStatement(10, <<d>> \o us)>> : d \in D, us \in U}
      \cup {<<d, Func(10, param, us)>> : d \in D, us \in U, param \in {"fs", "console"}}
      \cup Special
      \cup Shapes
      \cup Unknown

----------------------------------------------------------------------------
(* The traversal alone: one function call on one AST *)

InitWalk ==
  /\ \E body \in Bodies : ast = buildTree(Content(TRUE, body))
  /\ pc \in {"findGlobalsInAST", "extractMemberAccesses"}
  /\ ret = "halt"
  /\ stack = <<RootFrame(ast)>>
  /\ ancestors = <<>> /\ envs = <<>> /\ env = 0
  /\ globals = <<>> /\ globalMembers = <<>> /\ memberAccesses = <<>>
  /\ returned = [globals |-> <<>>, globalMembers |-> <<>>, memberAccesses |-> <<>>]
  /\ disk = <<>> /\ lockfile = <<>> /\ packageJson = <<>> /\ argv = <<>>
  /\ dependencyMap = <<>> /\ queue = <<>> /\ pkg = <<>>
  /\ capabilitiesCoarse = <<>> /\ capabilitiesFine = <<>> /\ newPolicy = <<>>
  /\ history = <<>>

NextWalk ==
  \/ GlobalsVisit
  \/ MembersVisit
  \/ Leave
  \/ GlobalsReturn
  \/ MembersReturn

SpecWalk == InitWalk /\ [][NextWalk]_vars

----------------------------------------------------------------------------
(* The program is run again: on the same tree, whose directories the       *)
(* filesystem may enumerate in another order, or after a file was added to *)
(* an analysed package.  history keeps the policy of each earlier run and  *)
(* what changed after it.                                                  *)

MaxRuns == 2

Perms(n) == {p \in [1..n -> 1..n] : \A i, j \in 1..n : p[i] = p[j] => i = j}

Permute(seq) == {[i \in 1..Len(seq) |-> seq[p[i]]] : p \in Perms(Len(seq))}

RECURSIVE Shuffles(_)
\* The same entries, every directory in any order
Shuffles(entries) ==
  LET n == Len(entries)
      inner == [i \in 1..n |->
                  IF entries[i].kind = "directory"
                  THEN {Directory(entries[i].name, e) : e \in Shuffles(entries[i].entries)}
                  ELSE {entries[i]}]
      choices == {c \in [1..n -> UNION {inner[i] : i \in 1..n}] :
                    \A i \in 1..n : c[i] \in inner[i]}
  IN  UNION {Permute(c) : c \in choices}

RECURSIVE WithEntry(_, _, _)
\* The entries, with one more entry at the end of the directory at dirPath
WithEntry(entries, dirPath, entry) ==
  IF dirPath = <<>> THEN Append(entries, entry)
  ELSE [i \in 1..Len(entries) |->
          IF entries[i].name = Head(dirPath) /\ entries[i].kind = "directory"
          THEN Directory(entries[i].name, WithEntry(entries[i].entries, Tail(dirPath), entry))
          ELSE entries[i]]

NoChange == [type |-> "none", packagePath |-> <<>>, module |-> JSString(<<"">>)]

Again ==
  /\ pc' = "main"
  /\ dependencyMap' = <<>> /\ queue' = <<>> /\ pkg' = NoPackage
  /\ capabilitiesCoarse' = <<>> /\ capabilitiesFine' = <<>>
  /\ newPolicy' = NoPolicy
  /\ ast' = Null /\ returned' = NothingReturned
  /\ UNCHANGED <<lockfile, packageJson, argv, walkVars, ret>>

Rerun ==
  /\ pc = "done"
  /\ Len(history) < MaxRuns - 1
  /\ disk' \in Shuffles(disk)
  /\ history' = Append(history, [policy |-> newPolicy, change |-> NoChange])
  /\ Again

\* import 'specifier', as the only statement of a file
Importing(specifier) ==
  Content(TRUE, <<ImportDeclaration(20, <<>>, Literal(24, specifier))>>)

AddedName == <<"added", "js">>

AddFile ==
  /\ pc = "done"
  /\ Len(history) < MaxRuns - 1
  /\ \E i \in 1..Len(dependencyMap), M \in {JSString(<<"path">>), JSString(<<"lodash">>)} :
       LET P == dependencyMap[i].key
       IN  /\ ~existsSync(disk, Append(P, AddedName))
           /\ disk' = WithEntry(disk, P, File(AddedName, Importing(M)))
           /\ history' = Append(history,
                                [policy |-> newPolicy,
                                 change |-> [type |-> "add", packagePath |-> P, module |-> M]])
  /\ Again

----------------------------------------------------------------------------
(* The trees, lockfiles and command lines the program is started on *)

MaxVersion == 4

Name(s) == <<s>>

Js(s) == <<s, "js">>

project == <<Name("project")>>

app == <<Name("app")>>

lodash == <<Name("lodash")>>

a == <<Name("a")>>

optional == <<Name("optional")>>

\* require(value), as the only statement of a file
Requiring(value) ==
  Content(TRUE, <<ExpressionStatement(20, Req(21, "CallExpression", value))>>)

\* console.log
Logging ==
  Content(TRUE, <<Member(20, Identifier(22, "console"), Identifier(23, "log"), FALSE)>>)

\* const fs = require('fs'); fs.readFile
Reading ==
  Content(TRUE, <<Declare(20, "const", Identifier(22, "fs"),
                          Req(23, "CallExpression", JSString(<<"fs">>))),
                  Member(40, Identifier(42, "fs"), Identifier(43, "readFile"), FALSE)>>)

\* const { x } = process
Destructuring ==
  Content(TRUE, <<Declare(20, "const", ObjectPattern(22, <<Shorthand(26, "x")>>),
                          Identifier(23, "process"))>>)

Unparsable == Content(FALSE, <<>>)

Argv(positional, h, memberAccessTracing, customModules) ==
  [_ |-> positional, h |-> h, memberAccessTracing |-> memberAccessTracing,
   customModules |-> customModules]

Manifest(name, dependencies) == [name |-> name, dependencies |-> dependencies]

Lockfile(lockfileVersion, dependencies, packages) ==
  [lockfileVersion |-> lockfileVersion, dependencies |-> dependencies,
   packages |-> packages]

\* An entry of the "packages" map of a version 2 or 3 lockfile
Installed(relativePackagePath, dependencies) ==
  [key |-> relativePackagePath, value |-> [dependencies |-> dependencies]]

Locked(packageName, entry) == [key |-> packageName, value |-> entry]

Start(d, lock, manifest, args) ==
  [disk |-> d, lockfile |-> lock, packageJson |-> manifest, argv |-> args]

\* The bodies of one declaration at most and then uses
FlatBodies ==
  UseSeqs(40) \cup {<<d>> \o us : d \in Decls(20) \cup ModuleDecls(20), us \in UseSeqs(40)}

\* A package without dependencies, of one file
OneFile ==
  {Start(<<Directory(Name("project"), <<File(Js("index"), Content(TRUE, body))>>)>>,
         Lockfile(3, <<>>, <<Installed(<<>>, <<>>)>>),
         Manifest(app, <<>>),
         Argv(<<project>>, FALSE, TRUE, customModules)) :
     body \in FlatBodies, customModules \in BOOLEAN}

\* The directories of a package without dependencies
Trees ==
  { <<File(Js("a"), Requiring(JSNumber(<<"1">>))),
      File(Js("b"), Requiring(JSString(<<"1">>)))>>,
    <<Directory(Name("lib"), <<File(<<"x", "mjs">>, Logging)>>),
      Directory(<<"", "cache">>, <<File(Js("h"), Requiring(JSString(<<"fs">>)))>>),
      Directory(node_modules, <<File(Js("skipped"), Requiring(JSString(<<"path">>)))>>)>>,
    <<File(<<"e", "json">>, Requiring(JSString(<<"path">>))),
      Directory(Js("x"), <<File(<<"y", "cjs">>, Reading)>>),
      Other(Js("l"))>>,
    <<File(Js("broken"), Unparsable),
      File(<<"", "js">>, Hashbang(Destructuring)),
      File(Name("js"), Logging)>> }

Alone ==
  {Start(<<Directory(Name("project"), tree)>>,
         Lockfile(version, <<>>, <<Installed(<<>>, <<>>)>>),
         Manifest(app, <<>>),
         Argv(<<project>>, FALSE, memberAccessTracing, TRUE)) :
     tree \in Trees, version \in 1..MaxVersion, memberAccessTracing \in BOOLEAN}

\* The command line that asks for the usage, or names no path
Usage ==
  {Start(<<Directory(Name("project"), <<File(Js("index"), Logging)>>)>>,
         Lockfile(3, <<>>, <<Installed(<<>>, <<>>)>>),
         Manifest(app, <<>>),
         args) :
     args \in {Argv(<<>>, FALSE, FALSE, FALSE), Argv(<<project>>, TRUE, FALSE, FALSE)}}

\* require('path'); console.log
Joining ==
  Content(TRUE, <<ExpressionStatement(20, Req(21, "CallExpression", JSString(<<"path">>))),
                  Member(40, Identifier(42, "console"), Identifier(43, "log"), FALSE)>>)

beta == <<Name("b")>>

Package(name, content, more) ==
  Directory(name, <<File(Js("index"), content)>> \o more)

\* lodash is installed at the top and once more below a; the lockfile (version 2 or 3)
\* lists the packages in any order
TwoCopies ==
  {Start(<<Directory(Name("project"),
             <<Directory(node_modules,
                 <<Package(Name("lodash"), Reading, <<>>),
                   Directory(Name("a"),
                     <<Directory(node_modules,
                         <<Package(Name("lodash"), Joining, <<>>)>>)>>)>>)>>)>>,
         Lockfile(version, <<>>, packages),
         Manifest(app, <<a>>),
         Argv(<<project>>, FALSE, TRUE, customModules)) :
     version \in {2, 3},
     packages \in Permute(<<Installed(<<>>, <<a>>),
                            Installed(<<node_modules>> \o lodash, <<>>),
                            Installed(<<node_modules>> \o a, <<lodash>>),
                            Installed(<<node_modules>> \o a \o <<node_modules>> \o lodash,
                                      <<>>)>>),
     customModules \in BOOLEAN}

\* The same installation under a version 1 lockfile
TwoCopiesVersion1 ==
  {Start(<<Directory(Name("project"),
             <<Directory(node_modules,
                 <<Package(Name("lodash"), Reading, <<>>),
                   Directory(Name("a"),
                     <<Directory(node_modules,
                         <<Package(Name("lodash"), Joining, <<>>)>>)>>)>>)>>)>>,
         Lockfile(1, dependencies, <<>>),
         Manifest(app, <<a>>),
         Argv(<<project>>, FALSE, TRUE, customModules)) :
     dependencies \in Permute(<<Locked(lodash, LockEntry(FALSE, <<>>, <<>>)),
                                Locked(a, LockEntry(FALSE, <<lodash>>,
                                         <<Locked(lodash, LockEntry(FALSE, <<>>, <<>>))>>))>>),
     customModules \in BOOLEAN}

\* A third copy below b; the three copies come in any order
ThreeCopies ==
  {Start(<<Directory(Name("project"),
             <<Directory(node_modules,
                 <<Package(Name("lodash"), Requiring(JSString(<<"fs">>)), <<>>),
                   Directory(Name("a"),
                     <<Directory(node_modules,
                         <<Package(Name("lodash"), Logging, <<>>)>>)>>),
                   Directory(Name("b"),
                     <<Directory(node_modules,
                         <<Package(Name("lodash"), Destructuring, <<>>)>>)>>)>>)>>)>>,
         Lockfile(3, <<>>,
                  <<Installed(<<>>, <<a, beta>>),
                    Installed(<<node_modules>> \o a, <<lodash>>),
                    Installed(<<node_modules>> \o beta, <<lodash>>)>> \o copies),
         Manifest(app, <<a, beta>>),
         Argv(<<project>>, FALSE, TRUE, FALSE)) :
     copies \in Permute(<<Installed(<<node_modules>> \o lodash, <<>>),
                          Installed(<<node_modules>> \o a \o <<node_modules>> \o lodash, <<>>),
                          Installed(<<node_modules>> \o beta \o <<node_modules>> \o lodash,
                                    <<>>)>>)}

\* A locked package that is not installed, and a dependency that is not locked
NotInstalled ==
  {Start(<<Directory(Name("project"),
             <<File(Js("index"), Logging),
               Directory(node_modules, <<Package(Name("lodash"), Reading, <<>>)>>)>>)>>,
         Lockfile(version,
                  <<Locked(lodash, LockEntry(FALSE, <<optional>>, <<>>)),
                    Locked(optional, LockEntry(isOptional, <<>>, <<>>))>>,
                  <<Installed(<<>>, <<lodash, a>>),
                    Installed(<<node_modules>> \o lodash, <<optional>>),
                    Installed(<<node_modules>> \o optional, <<>>)>>),
         Manifest(app, <<lodash, a>>),
         Argv(<<project>>, FALSE, FALSE, FALSE)) :
     version \in 1..MaxVersion, isOptional \in BOOLEAN}

\* The first file of the project does not parse, nor does the first file of lodash
Broken ==
  {Start(<<Directory(Name("project"),
             <<File(Js("index"), Unparsable),
               File(Js("main"), Logging),
               Directory(node_modules,
                 <<Package(Name("lodash"), Unparsable, <<File(Js("lib"), Reading)>>)>>)>>)>>,
         Lockfile(version,
                  <<Locked(lodash, LockEntry(FALSE, <<>>, <<>>))>>,
                  <<Installed(<<>>, <<lodash>>),
                    Installed(<<node_modules>> \o lodash, <<>>)>>),
         Manifest(app, <<lodash>>),
         Argv(<<project>>, FALSE, memberAccessTracing, FALSE)) :
     version \in {1, 3}, memberAccessTracing \in BOOLEAN}

\* The first file of the project has a tree of an unknown shape
Malformed ==
  {Start(<<Directory(Name("project"),
             <<File(Js("index"), Content(TRUE, body)),
               File(Js("main"), Logging)>>)>>,
         Lockfile(3, <<>>, <<Installed(<<>>, <<>>)>>),
         Manifest(app, <<>>),
         Argv(<<project>>, FALSE, memberAccessTracing, FALSE)) :
     body \in {UnknownTarget, UnknownProperty(Req(23, "CallExpression", JSString(<<"fs">>)))},
     memberAccessTracing \in BOOLEAN}

\* An optional package with a dependency nested below it; neither is installed
NestedOptional ==
  {Start(<<Directory(Name("project"),
             <<File(Js("index"), Logging),
               Directory(node_modules, <<Package(Name("lodash"), Reading, <<>>)>>)>>)>>,
         Lockfile(version,
                  <<Locked(lodash, LockEntry(FALSE, <<optional>>, <<>>)),
                    Locked(optional,
                           LockEntry(TRUE, <<beta>>,
                                     <<Locked(beta, LockEntry(FALSE, <<>>, <<>>))>>))>>,
                  <<Installed(<<>>, <<lodash, optional>>),
                    Installed(<<node_modules>> \o lodash, <<optional>>),
                    Installed(<<node_modules>> \o optional, <<beta>>),
                    Installed(<<node_modules>> \o optional \o <<node_modules>> \o beta,
                              <<>>)>>),
         Manifest(app, <<lodash, optional>>),
         Argv(<<project>>, FALSE, FALSE, FALSE)) :
     version \in 1..MaxVersion}

\* lodash, installed as a dependency of a, was added to the dependencies of
\* package.json by hand: the lockfile still lists a alone for the project
Stale ==
  {Start(<<Directory(Name("project"),
             <<File(Js("index"), Logging),
               Directory(node_modules,
                 <<Package(Name("a"), Logging, <<>>),
                   Package(Name("lodash"), Reading, <<>>)>>)>>)>>,
         Lockfile(version,
                  <<Locked(a, LockEntry(FALSE, <<lodash>>, <<>>)),
                    Locked(lodash, LockEntry(FALSE, <<>>, <<>>))>>,
                  <<Installed(<<>>, <<a>>),
                    Installed(<<node_modules>> \o a, <<lodash>>),
                    Installed(<<node_modules>> \o lodash, <<>>)>>),
         Manifest(app, <<a, lodash>>),
         Argv(<<project>>, FALSE, FALSE, FALSE)) :
     version \in 1..MaxVersion}

\* require('path'); require('fs')
JoiningAndReading ==
  Content(TRUE, <<ExpressionStatement(20, Req(21, "CallExpression", JSString(<<"path">>))),
                  ExpressionStatement(40, Req(41, "CallExpression", JSString(<<"fs">>)))>>)

\* Two copies of lodash that both require path, in either order in the lockfile
SharedCopies ==
  {Start(<<Directory(Name("project"),
             <<Directory(node_modules,
                 <<Package(Name("lodash"), Joining, <<>>),
                   Directory(Name("a"),
                     <<Directory(node_modules,
                         <<Package(Name("lodash"), JoiningAndReading, <<>>)>>)>>)>>)>>)>>,
         Lockfile(3, <<>>,
                  <<Installed(<<>>, <<a>>), Installed(<<node_modules>> \o a, <<lodash>>)>>
                    \o copies),
         Manifest(app, <<a>>),
         Argv(<<project>>, FALSE, memberAccessTracing, FALSE)) :
     copies \in Permute(<<Installed(<<node_modules>> \o lodash, <<>>),
                          Installed(<<node_modules>> \o a \o <<node_modules>> \o lodash,
                                    <<>>)>>),
     memberAccessTracing \in BOOLEAN}

Starts == OneFile \cup Alone \cup Usage \cup TwoCopies \cup TwoCopiesVersion1
            \cup ThreeCopies \cup NotInstalled \cup Broken \cup NestedOptional
            \cup Stale \cup SharedCopies \cup Malformed

Init ==
  /\ \E start \in Starts :
       /\ disk = start.disk
       /\ lockfile = start.lockfile
       /\ packageJson = start.packageJson
       /\ argv = start.argv
  /\ pc = "main"
  /\ ret = "halt"
  /\ dependencyMap = <<>> /\ queue = <<>> /\ pkg = NoPackage
  /\ capabilitiesCoarse = <<>> /\ capabilitiesFine = <<>>
  /\ newPolicy = NoPolicy
  /\ history = <<>>
  /\ ast = Null /\ returned = NothingReturned
  /\ Idle

Next ==
  \/ Main
  \/ GetCapabilitiesFromDependencyMap
  \/ GetAccessesForPackageFile
  \/ GetAccessesForPackageUnion
  \/ GetAccessesForPackageReturn
  \/ GetMemberAccessesForPackageFile
  \/ GetMemberAccessesForPackageGlobals
  \/ GetMemberAccessesForPackageUnion
  \/ GetMemberAccessesForPackageReturn
  \/ CreatePolicy
  \/ GlobalsVisit
  \/ MembersVisit
  \/ Leave
  \/ GlobalsReturn
  \/ MembersReturn
  \/ Rerun
  \/ AddFile

Spec == Init /\ [][Next]_vars

----------------------------------------------------------------------------
(* Properties *)

\* The name a package path is keyed by in the policy
KeyOf(packagePath) ==
  IF LastPathPart(packagePath) = rootPath THEN rootPackageName
  ELSE LastPathPart(packagePath)

\* "m" of "m.x"
Front(str) == SubSeq(str, 1, Len(str) - 1)

Finished == pc = "done"

\* The traversal has visited the whole tree and is about to return
GlobalsDone == pc = "findGlobalsInAST" /\ Len(stack) = 1 /\ Top.todo = <<>>

MembersDone == pc = "extractMemberAccesses" /\ Len(stack) = 1 /\ Top.todo = <<>>

\* The visits of the tree that is traversed
Visits == SimpleVisits(ast, "")

\* require('m') with a string literal
IsRequireOfString(node) ==
  /\ node.type = "CallExpression"
  /\ node.callee.type = "Identifier" /\ node.callee.name = "require"
  /\ Len(node.arguments) >= 1
  /\ node.arguments[1].type = "Literal"
  /\ node.arguments[1].value.typeof = "string"

ModuleMembersWithin(fine, coarse) ==
  \A i \in 1..Len(fine) : SetHas(coarse, JSString(Front(fine[i].str)))

\* C1: with member tracing, the module m of every entry "m.x" of a package's fine
\* module members is among the package's coarse modules: per analysed path, and per
\* name in the policy, where the copies of a name are united
C1_FineModulesWithinCoarse ==
  /\ \A i \in 1..Len(capabilitiesFine) :
       /\ ObjHas(capabilitiesCoarse, capabilitiesFine[i].key)
       /\ ModuleMembersWithin(capabilitiesFine[i].value.modules,
                              ObjGet(capabilitiesCoarse, capabilitiesFine[i].key).modules)
  /\ Finished =>
       \A i \in 1..Len(newPolicy.policyFine) :
         /\ ObjHas(newPolicy.policyCoarse, newPolicy.policyFine[i].key)
         /\ ModuleMembersWithin(
              newPolicy.policyFine[i].value.modules,
              ObjGet(newPolicy.policyCoarse, newPolicy.policyFine[i].key).modules)

\* Two copies of lodash were analysed without the option, and the policy lists
\* fs.readFile for lodash
C1_Witness ==
  /\ Finished /\ newPolicy.memberAccessTracing /\ ~argv.customModules
  /\ Len(capabilitiesFine) = 4
  /\ ObjHas(newPolicy.policyFine, lodash)
  /\ SetHas(ObjGet(newPolicy.policyFine, lodash).modules, JSString(<<"fs", "readFile">>))

GlobalMembersWithin(fine, coarse) ==
  \A i \in 1..Len(fine) : SetHas(coarse, JSString(<<Head(fine[i].str)>>))

\* C2: the global g of every entry "g.x" of a package's fine global members is among
\* the package's coarse globals; in the traversal that recorded "g.x", from a member
\* expression or from a destructuring declaration, g is among the globals it recorded
C2_GlobalMembersWithinGlobals ==
  /\ GlobalsDone =>
       \A i \in 1..Len(globalMembers) :
         \E j \in 1..Len(globals) : Str(globals[j].name) = <<Head(globalMembers[i].str)>>
  /\ \A i \in 1..Len(capabilitiesFine) :
       /\ ObjHas(capabilitiesCoarse, capabilitiesFine[i].key)
       /\ GlobalMembersWithin(capabilitiesFine[i].value.globals,
                              ObjGet(capabilitiesCoarse, capabilitiesFine[i].key).globals)
  /\ Finished =>
       \A i \in 1..Len(newPolicy.policyFine) :
         /\ ObjHas(newPolicy.policyCoarse, newPolicy.policyFine[i].key)
         /\ GlobalMembersWithin(
              newPolicy.policyFine[i].value.globals,
              ObjGet(newPolicy.policyCoarse, newPolicy.policyFine[i].key).globals)

\* The policy lists for lodash a global member from a member expression and one
\* from a destructuring declaration
C2_Witness ==
  /\ Finished
  /\ ObjHas(newPolicy.policyFine, lodash)
  /\ SetHas(ObjGet(newPolicy.policyFine, lodash).globals, JSString(<<"console", "log">>))
  /\ SetHas(ObjGet(newPolicy.policyFine, lodash).globals, JSString(<<"process", "x">>))

Copies(capabilities, N) == {i \in 1..Len(capabilities) : KeyOf(capabilities[i].key) = N}

\* policy has one entry for each name of capabilities, holding the union of its copies
UnionOfCopies(policy, capabilities) ==
  /\ \A k \in 1..Len(policy) : Copies(capabilities, policy[k].key) # {}
  /\ \A i \in 1..Len(capabilities) :
       LET N == KeyOf(capabilities[i].key)
       IN  /\ Cardinality({k \in 1..Len(policy) : policy[k].key = N}) = 1
           /\ Elems(ObjGet(policy, N).modules) =
                UNION {Elems(capabilities[j].value.modules) : j \in Copies(capabilities, N)}
           /\ Elems(ObjGet(policy, N).globals) =
                UNION {Elems(capabilities[j].value.globals) : j \in Copies(capabilities, N)}

\* C3: the installed copies of a package named N make one policy entry keyed N, whose
\* modules and globals are the unions over the copies, however many and in whatever
\* order they were processed
C3_CopiesAreUnited ==
  Finished => /\ UnionOfCopies(newPolicy.policyCoarse, capabilitiesCoarse)
              /\ UnionOfCopies(newPolicy.policyFine, capabilitiesFine)

\* Three copies of lodash that access different things, the first processed copy
\* not being the one at the top
C3_Witness ==
  /\ Finished
  /\ Cardinality(Copies(capabilitiesCoarse, lodash)) = 3
  /\ capabilitiesCoarse[Min(Copies(capabilitiesCoarse, lodash))].key
       # project \o <<node_modules>> \o lodash
  /\ Elems(ObjGet(newPolicy.policyCoarse, lodash).modules) = {JSString(<<"fs">>)}
  /\ Elems(ObjGet(newPolicy.policyCoarse, lodash).globals) =
       {JSString(<<"console">>), JSString(<<"process">>)}

\* C4: every run on the same tree and lockfile produces the same policy, in whatever
\* order the filesystem enumerates the directories
C4_SamePolicyOnEveryRun ==
  Finished =>
    \A i \in 1..Len(history) :
      history[i].change.type = "none" => history[i].policy = newPolicy

\* The run before this one ended with a file being added
AfterAddFile == Finished /\ history # <<>> /\ history[Len(history)].change.type = "add"

AddedTo == KeyOf(history[Len(history)].change.packagePath)

AddedModule == history[Len(history)].change.module

ModulesBefore == ObjGet(history[Len(history)].policy.policyCoarse, AddedTo).modules

ModulesAfter == ObjGet(newPolicy.policyCoarse, AddedTo).modules

AddedModuleAppears ==
  /\ ~SetHas(ModulesBefore, AddedModule) => SetHas(ModulesAfter, AddedModule)
  /\ \A i \in 1..Len(ModulesBefore) : SetHas(ModulesAfter, ModulesBefore[i])

C6_DirectRequireMember ==
  MembersDone =>
    LET visits == Visits
    IN  \A i \in 1..Len(visits) :
      LET node == visits[i].node
      IN  /\ visits[i].type = "MemberExpression"
          /\ IsRequireOfString(node.object)
          /\ node.property.type \in {"Identifier", "Literal"}
          => SetHas(memberAccesses,
                    JSString(Dot(node.object.arguments[1].value.str,
                                 IF node.property.type = "Identifier"
                                 THEN Str(node.property.name)
                                 ELSE node.property.value.str)))

\* "m.0", ..., "m.<n-1>" are among the member accesses
IndexMembersRecorded(module, n) ==
  \A i \in 0..(n - 1) : SetHas(memberAccesses, JSString(Dot(module, IndexText(i))))

\* C7: when the module member traversal has visited a declaration with an array
\* pattern of n slots, initialised from require('m') or from a variable that the same
\* declaration binds to require('m'), "m.0" to "m.<n-1>" are among the member accesses
C7_ArrayPatternMembers ==
  MembersDone =>
    LET visits == Visits
    IN  \A i \in 1..Len(visits) :
      visits[i].type = "VariableDeclaration" =>
        LET declarations == visits[i].node.declarations
        IN  \A k \in 1..Len(declarations) :
              declarations[k].id.type = "ArrayPattern" =>
                /\ IsRequireOfString(declarations[k].init) =>
                     IndexMembersRecorded(declarations[k].init.arguments[1].value.str,
                                          Len(declarations[k].id.elements))
                /\ \A j \in 1..(k - 1) :
                     /\ declarations[k].init.type = "Identifier"
                     /\ declarations[j].id.type = "Identifier"
                     /\ declarations[j].id.name = declarations[k].init.name
                     /\ IsRequireOfString(declarations[j].init)
                     => IndexMembersRecorded(declarations[j].init.arguments[1].value.str,
                                             Len(declarations[k].id.elements))

\* The names a node declares: variables, imports, functions and their parameters
DeclaredBy(node, type) ==
  CASE type = "VariableDeclaration" ->
         {id.name : id \in Elems(identifiersFromVariableDeclaration(node))}
    [] type = "ImportDeclaration" ->
         {id.name : id \in Elems(identifiersFromImportDeclaration(node))}
    [] type = "FunctionDeclaration" ->
         {node.id.name}
           \cup UNION {{id.name : id \in Elems(identifiersFromNode(node.params[p]))} :
                         p \in 1..Len(node.params)}
    [] OTHER -> {}

DeclaredNames ==
  LET visits == Visits
  IN  UNION {DeclaredBy(visits[i].node, visits[i].type) : i \in 1..Len(visits)}

\* C8: when the globals traversal has visited a[G], G a known global that nothing in
\* the file declares, the identifier G is among the globals
C8_ComputedPropertyIsUse ==
  GlobalsDone =>
    LET visits == Visits
        declared == DeclaredNames
    IN  \A i \in 1..Len(visits) :
      LET node == visits[i].node
      IN  /\ visits[i].type = "MemberExpression"
          /\ node.computed
          /\ node.property.type = "Identifier"
          /\ node.property.name \in globalNames
          /\ node.property.name \notin declared
          => \E j \in 1..Len(globals) :
               globals[j].name = node.property.name /\ globals[j].start = node.property.uid

\* C9: a run on a lockfile whose version is not 1, 2 or 3 has an empty dependency map,
\* has analysed the root package and ends with a policy entry for it
C9_RootAnalysedWithoutKnownVersion ==
  Finished /\ lockfile.lockfileVersion \notin {1, 2, 3} =>
    /\ dependencyMap = <<>>
    /\ ObjHas(capabilitiesCoarse, rootPath)
    /\ ObjHas(newPolicy.policyCoarse, rootPackageName)

RECURSIVE FilesBelow(_, _, _)
\* Every file below a directory: its path, and the names of the directories between
FilesBelow(entries, dirPath, entered) ==
  UNION {IF entries[i].kind = "directory"
         THEN FilesBelow(entries[i].entries, Append(dirPath, entries[i].name),
                         Append(entered, entries[i].name))
         ELSE IF entries[i].kind = "file"
         THEN {[path |-> Append(dirPath, entries[i].name), entered |-> entered]}
         ELSE {} : i \in 1..Len(entries)}

HasJsExtension(path) ==
  LET name == path[Len(path)]
  IN  Len(name) > 1 /\ name[Len(name)] \in {"js", "mjs", "cjs"}

\* name starts with '.'
IsHidden(name) == Head(name) = ""

JsFilesOutsideNodeModules(packagePath) ==
  {f.path : f \in {g \in FilesBelow(readdirSync(disk, packagePath), packagePath, <<>>) :
                     /\ HasJsExtension(g.path)
                     /\ \A i \in 1..Len(g.entered) : g.entered[i] # node_modules}}

JsFilesOutsideNodeModulesAndHidden(packagePath) ==
  {f.path : f \in {g \in FilesBelow(readdirSync(disk, packagePath), packagePath, <<>>) :
                     /\ HasJsExtension(g.path)
                     /\ \A i \in 1..Len(g.entered) :
                          g.entered[i] # node_modules /\ ~IsHidden(g.entered[i])}}

\* A step that enumerates the source files of a package
Enumerates ==
  \/ pc = "getCapabilitiesFromDependencyMap" /\ pc' = "getAccessesForPackage"
  \/ pc = "getAccessesForPackage" /\ pc' = "getMemberAccessesForPackage"

\* C10 as stated: the enumeration of a package is, each once, the regular files below
\* its directory that end in .js, .mjs or .cjs and are reached without entering a
\* directory named node_modules or a hidden directory
C10_EnumerationSkipsHidden ==
  [][Enumerates =>
       /\ Elems(pkg'.jsFilePaths) = JsFilesOutsideNodeModulesAndHidden(pkg'.packagePath)
       /\ Len(pkg'.jsFilePaths) = Cardinality(Elems(pkg'.jsFilePaths))]_vars

\* C10: ... reached without entering a directory named node_modules
C10_EnumerationSkipsNodeModules ==
  [][Enumerates =>
       /\ Elems(pkg'.jsFilePaths) = JsFilesOutsideNodeModules(pkg'.packagePath)
       /\ Len(pkg'.jsFilePaths) = Cardinality(Elems(pkg'.jsFilePaths))]_vars

\* The enumeration of a package that has a file in a subdirectory, one in a hidden
\* directory and one in node_modules: the first two are listed
C10_Witness ==
  /\ pc = "getAccessesForPackage"
  /\ existsSync(disk, project \o <<node_modules, Js("skipped")>>)
  /\ Elems(pkg.jsFilePaths) = {project \o <<Name("lib"), <<"x", "mjs">>>>,
                               project \o <<<<"", "cache">>, Js("h")>>}

----------------------------------------------------------------------------
(* Lexical resolution of a name, from the syntax alone: the scopes are the  *)
(* Program, the functions and the blocks among the ancestors of the place   *)
(* of use; a scope binds the names of its let/const declarations and        *)
(* imports, a function or the Program also its parameters and the var       *)
(* declarations below it.                                                  *)

\* The declarators of the declarations of the given kinds among statements
DeclaratorsOf(stmts, kinds) ==
  Flat([i \in 1..Len(stmts) |->
          IF stmts[i].type = "VariableDeclaration" /\ stmts[i].kind \in kinds
          THEN stmts[i].declarations ELSE <<>>])

RECURSIVE OwnVisits(_, _, _)
\* The nodes below a node that are not within a function below it
OwnVisits(node, override, top) ==
  LET type == IF override = "" THEN node.type ELSE override
      calls == base(type, node)
  IN  IF ~top /\ type \in {"FunctionDeclaration", "FunctionExpression",
                            "ArrowFunctionExpression"}
      THEN <<>>
      ELSE <<[node |-> node, type |-> type]>>
             \o Flat([i \in 1..Len(calls) |->
                        OwnVisits(calls[i].node, calls[i].override, FALSE)])

\* The declarators of the var declarations below a node, those of the functions
\* below it left out
VarDeclaratorsBelow(node) ==
  LET visits == OwnVisits(node, "", TRUE)
  IN  Flat([i \in 1..Len(visits) |->
              IF visits[i].type = "VariableDeclaration" /\ visits[i].node.kind = "var"
              THEN visits[i].node.declarations ELSE <<>>])

\* The names a binding target binds
PatternNames(id) ==
  CASE id.type = "Identifier" -> {id.name}
    [] id.type = "ObjectPattern" ->
         {CASE id.properties[i].type = "Property" -> id.properties[i].value.name
            [] id.properties[i].type = "RestElement" -> id.properties[i].argument.name
            [] OTHER -> id.properties[i].name : i \in 1..Len(id.properties)}
    [] id.type = "ArrayPattern" ->
         {IF id.elements[i].type = "RestElement" THEN id.elements[i].argument.name
          ELSE id.elements[i].name :
            i \in {j \in 1..Len(id.elements) : ~IsNull(id.elements[j])}}
    [] OTHER -> {}

FunctionShaped == {"FunctionDeclaration", "FunctionExpression", "ArrowFunctionExpression"}

ScopeDeclarators(scope) ==
  CASE scope.type = "Program" ->
         DeclaratorsOf(scope.body, {"let", "const"}) \o VarDeclaratorsBelow(scope)
    [] scope.type \in FunctionShaped -> VarDeclaratorsBelow(scope)
    [] scope.type = "BlockStatement" -> DeclaratorsOf(scope.body, {"let", "const"})
    [] scope.type = "ForStatement" -> DeclaratorsOf(<<scope.init>>, {"let", "const"})
    [] scope.type \in {"ForInStatement", "ForOfStatement"} ->
         DeclaratorsOf(<<scope.left>>, {"let", "const"})
    [] OTHER -> <<>>

\* The import specifiers of a scope, each with its source
ScopeImports(scope) ==
  IF scope.type # "Program" THEN <<>>
  ELSE Flat([i \in 1..Len(scope.body) |->
               IF scope.body[i].type = "ImportDeclaration"
               THEN [j \in 1..Len(scope.body[i].specifiers) |->
                       [specifier |-> scope.body[i].specifiers[j],
                        source |-> scope.body[i].source]]
               ELSE <<>>])

ScopeParams(scope) == IF scope.type \in FunctionShaped THEN scope.params ELSE <<>>

\* require(<string literal>) or new require(<string literal>)
IsRequire(init) ==
  /\ ~IsNull(init)
  /\ init.type \in {"CallExpression", "NewExpression"}
  /\ init.callee.type = "Identifier" /\ init.callee.name = "require"
  /\ Len(init.arguments) >= 1
  /\ init.arguments[1].type = "Literal"
  /\ init.arguments[1].value.typeof = "string"

\* how: the syntax that binds the name
Binding(how, module) == [how |-> how, module |-> module]

Unbound == Binding("none", NullValue)

RECURSIVE Resolve(_, _)
\* The binding of name at a place whose ancestors are anc, and the module it refers to
Resolve(name, anc) ==
  IF anc = <<>> THEN Unbound
  ELSE LET scope == anc[Len(anc)]
           params == ScopeParams(scope)
           declarators == ScopeDeclarators(scope)
           imports == ScopeImports(scope)
           byDeclarator == {i \in 1..Len(declarators) : name \in PatternNames(declarators[i].id)}
           byImport == {i \in 1..Len(imports) : imports[i].specifier.local.name = name}
       IN  IF \E i \in 1..Len(params) : params[i].type = "Identifier" /\ params[i].name = name
           THEN Binding("parameter", NullValue)
           ELSE IF byDeclarator # {}
           THEN LET declarator == declarators[Min(byDeclarator)]
                IN  IF declarator.id.type # "Identifier" THEN Binding("pattern", NullValue)
                    ELSE IF IsRequire(declarator.init)
                    THEN Binding("require", declarator.init.arguments[1].value)
                    ELSE IF ~IsNull(declarator.init) /\ declarator.init.type = "Identifier"
                    THEN Binding("alias", Resolve(declarator.init.name, anc).module)
                    ELSE Binding("variable", NullValue)
           ELSE IF byImport # {}
           THEN LET import == imports[Min(byImport)]
                IN  IF /\ import.specifier.type \in {"ImportDefaultSpecifier",
                                                     "ImportNamespaceSpecifier"}
                       /\ import.source.type = "Literal"
                    THEN Binding("import", import.source.value)
                    ELSE Binding("named import", NullValue)
           ELSE Resolve(name, SubSeq(anc, 1, Len(anc) - 1))

\* A step of the module member traversal that enters a node of the type
MembersVisits(type) ==
  /\ pc = "extractMemberAccesses"
  /\ stack # <<>> /\ Top.todo # <<>>
  /\ NextType = type

\* ... that enters a member expression v.x, x an identifier or a literal
MembersVisitsMember ==
  /\ MembersVisits("MemberExpression")
  /\ NextCall.node.object.type = "Identifier"
  /\ NextCall.node.property.type \in {"Identifier", "Literal"}

\* The binding of v at the member expression that is entered
ObjectBinding == Resolve(NextCall.node.object.name, NextAncestors)

\* C11: a member expression v.x whose v is bound nearest by a function parameter, or
\* by any other binding without a module, records no module member, whatever an outer
\* scope binds v to
C11_PlainBindingRecordsNothing ==
  [][/\ MembersVisitsMember
      /\ ObjectBinding.how # "none"
      /\ ObjectBinding.module = NullValue
      => memberAccesses' = memberAccesses]_vars

\* fs.readFile has been visited in a function whose parameter is fs, below
\* const fs = require('fs'), and nothing is recorded
C11_Witness ==
  /\ MembersDone
  /\ \E i \in 1..Len(ast.body) :
       /\ ast.body[i].type = "FunctionDeclaration"
       /\ ast.body[i].params[1].name = "fs"
       /\ ast.body[i].body.body[1].type = "ExpressionStatement"
       /\ ast.body[i].body.body[1].expression.type = "MemberExpression"
       /\ ast.body[i].body.body[1].expression.object.type = "Identifier"
       /\ ast.body[i].body.body[1].expression.object.name = "fs"
  /\ ast.body[1] = RequireFs(20)
  /\ memberAccesses = <<>>

\* `${x}` of the selector of a member expression
SelectorText(property) ==
  IF property.type = "Identifier" THEN <<property.name>> ELSE property.value.str

\* The member expression that is entered is recorded under the module
RecordsMemberOf(module) ==
  SetHas(memberAccesses', JSString(module.str \o SelectorText(NextCall.node.property)))

\* After the step, lookupModuleRef of name gives the module
RefersTo(name, module) ==
  LET variable == getModRefVarNamed(envs', env', name)
  IN  variable # NoVar /\ VarAt(envs', variable).module = module

\* After the step, lookupModuleRef of name gives nothing
RefersToNothing(name) == getModRefVarNamed(envs', env', name) = NoVar

\* C12: a declarator v = require('m'), call or new-expression, makes v module
\* referencing for m, m is among the imports of the file, and a later v.x in the scope
\* of that binding records "m.x"
C12_RequireBinding ==
  [][ /\ MembersVisits("VariableDeclaration") =>
          (\A k \in 1..Len(NextCall.node.declarations) :
             LET declarator == NextCall.node.declarations[k]
             IN  (declarator.id.type = "Identifier" /\ IsRequire(declarator.init)) =>
                   (/\ RefersTo(declarator.id.name, declarator.init.arguments[1].value)
                    /\ SetHas(extractImportsFromAST(ast),
                              declarator.init.arguments[1].value)))
      /\ (MembersVisitsMember /\ ObjectBinding.how = "require") =>
          RecordsMemberOf(ObjectBinding.module)]_vars

\* const console = new require('fs'), and console.log in a function or a block: fs.log
C12_Witness ==
  /\ MembersDone
  /\ Len(ast.body) = 2
  /\ ast.body[1].type = "VariableDeclaration"
  /\ ast.body[1].declarations[1].init.type = "NewExpression"
  /\ ast.body[2].type \in {"FunctionDeclaration", "BlockStatement"}
  /\ memberAccesses = <<JSString(<<"fs", "log">>)>>

\* C13: a declarator b = a whose a resolves to a module referencing binding for m
\* makes b module referencing for m, through chains of aliases, and b.x records "m.x";
\* an a that resolves to a binding without a module, or to none, propagates nothing
C13_AliasPropagation ==
  [][ /\ MembersVisits("VariableDeclaration") =>
          (\A k \in 1..Len(NextCall.node.declarations) :
             LET declarator == NextCall.node.declarations[k]
             IN  (/\ declarator.id.type = "Identifier"
                  /\ ~IsNull(declarator.init)
                  /\ declarator.init.type = "Identifier")
                 => (LET module == Resolve(declarator.init.name, NextAncestors).module
                     IN  IF module # NullValue
                         THEN RefersTo(declarator.id.name, module)
                         ELSE RefersToNothing(declarator.id.name)))
      /\ (MembersVisitsMember /\ ObjectBinding.how = "alias") =>
          (IF ObjectBinding.module # NullValue
           THEN RecordsMemberOf(ObjectBinding.module)
           ELSE memberAccesses' = memberAccesses)]_vars

\* const fs = require('fs'); const a = fs; const b = a; b.x records fs.x
C13_Witness ==
  /\ MembersDone
  /\ Len(ast.body) = 4
  /\ ast.body[3].type = "VariableDeclaration"
  /\ ast.body[3].declarations[1].init.type = "Identifier"
  /\ ast.body[3].declarations[1].init.name = "a"
  /\ memberAccesses = <<JSString(<<"fs", "x">>)>>

\* The module a destructuring declarator takes members of: that of require('m'), or
\* that of the binding its initialiser names
DestructuredModule(declarator, anc) ==
  IF IsRequire(declarator.init) THEN declarator.init.arguments[1].value
  ELSE IF ~IsNull(declarator.init) /\ declarator.init.type = "Identifier"
  THEN Resolve(declarator.init.name, anc).module
  ELSE NullValue

\* "m.<key>" for the properties of the object patterns of a declaration
ObjectPatternKeys(declarations, anc) ==
  UNION {LET declarator == declarations[k]
             module == DestructuredModule(declarator, anc)
         IN  IF declarator.id.type = "ObjectPattern" /\ module # NullValue
             THEN {JSString(module.str \o <<declarator.id.properties[i].key.name>>) :
                     i \in {j \in 1..Len(declarator.id.properties) :
                              declarator.id.properties[j].type = "Property"}}
             ELSE {} : k \in 1..Len(declarations)}

HasPattern(declarations, type) ==
  \E k \in 1..Len(declarations) : declarations[k].id.type = type

\* C14: const { x, y } = require('m'), or = v with v module referencing for m, records
\* "m.x" and "m.y", by the keys of the properties and nothing for a rest element; the
\* names it binds have no module, so that a later x.z records nothing
C14_ObjectPatternMembers ==
  [][ /\ (MembersVisits("VariableDeclaration")
            /\ HasPattern(NextCall.node.declarations, "ObjectPattern")
            /\ ~HasPattern(NextCall.node.declarations, "ArrayPattern")) =>
          (/\ Elems(memberAccesses') =
                Elems(memberAccesses)
                  \cup ObjectPatternKeys(NextCall.node.declarations, NextAncestors)
           /\ \A k \in 1..Len(NextCall.node.declarations) :
                NextCall.node.declarations[k].id.type = "ObjectPattern" =>
                  (\A name \in PatternNames(NextCall.node.declarations[k].id) :
                     RefersToNothing(name)))
      /\ (MembersVisitsMember /\ ObjectBinding.how = "pattern") =>
          memberAccesses' = memberAccesses]_vars

\* const { x, ...y } = require('fs'); y.x records fs.x alone
C14_Witness ==
  /\ MembersDone
  /\ Len(ast.body) = 2
  /\ ast.body[1].type = "VariableDeclaration"
  /\ ast.body[1].declarations[1].id.type = "ObjectPattern"
  /\ ast.body[1].declarations[1].id.properties[2].type = "RestElement"
  /\ IsRequire(ast.body[1].declarations[1].init)
  /\ memberAccesses = <<JSString(<<"fs", "x">>)>>

HasLiteralSource(node) == ~IsNull(node.source) /\ node.source.type = "Literal"

\* C15: an import declaration from a string literal m makes the local name of each
\* default or namespace specifier module referencing for m, so that F.x records "m.x",
\* and leaves the local name of a named specifier without a module, so that a member
\* expression on it records nothing
C15_ImportBindings ==
  [][ /\ (MembersVisits("ImportDeclaration") /\ HasLiteralSource(NextCall.node)) =>
          (\A k \in 1..Len(NextCall.node.specifiers) :
             LET specifier == NextCall.node.specifiers[k]
             IN  IF specifier.type \in {"ImportDefaultSpecifier", "ImportNamespaceSpecifier"}
                 THEN RefersTo(specifier.local.name, NextCall.node.source.value)
                 ELSE RefersToNothing(specifier.local.name))
      /\ (MembersVisitsMember /\ ObjectBinding.how = "import") =>
          RecordsMemberOf(ObjectBinding.module)
      /\ (MembersVisitsMember /\ ObjectBinding.how = "named import") =>
          memberAccesses' = memberAccesses]_vars

\* import * as console from 'fs'; console.log records fs.log
C15_Witness ==
  /\ MembersDone
  /\ ast.body[1].type = "ImportDeclaration"
  /\ ast.body[1].specifiers[1].type = "ImportNamespaceSpecifier"
  /\ memberAccesses = <<JSString(<<"fs", "log">>)>>

\* "m.<name>" for the specifiers of the type, by the imported or by the local name
SpecifierNames(node, type) ==
  {JSString(node.source.value.str
              \o <<IF type = "ImportSpecifier" THEN node.specifiers[i].imported.name
                   ELSE node.specifiers[i].local.name>>) :
     i \in {j \in 1..Len(node.specifiers) : node.specifiers[j].type = type}}

\* C16: a named import specifier from a string literal m records "m.x" by its imported
\* name, an export specifier re-exported from m records "m.x" by the name it has in m,
\* and an export declaration without a source records nothing
C16_SpecifierMembers ==
  [][ /\ (MembersVisits("ImportDeclaration") /\ HasLiteralSource(NextCall.node)) =>
          Elems(memberAccesses') =
            Elems(memberAccesses) \cup SpecifierNames(NextCall.node, "ImportSpecifier")
      /\ (MembersVisits("ExportNamedDeclaration") /\ HasLiteralSource(NextCall.node)) =>
          Elems(memberAccesses') =
            Elems(memberAccesses) \cup SpecifierNames(NextCall.node, "ExportSpecifier")
      /\ (MembersVisits("ExportNamedDeclaration") /\ IsNull(NextCall.node.source)) =>
          memberAccesses' = memberAccesses]_vars

\* export { x as y } from 'fs' records fs.x
C16_Witness ==
  /\ MembersDone
  /\ ast.body[1].type = "ExportNamedDeclaration"
  /\ ast.body[1].specifiers[1].exported.name = "y"
  /\ memberAccesses = <<JSString(<<"fs", "x">>)>>

\* A step of the globals traversal that dispatches on an identifier node
GlobalsVisitsIdentifier ==
  /\ pc = "findGlobalsInAST"
  /\ stack # <<>> /\ Top.todo # <<>>
  /\ NextCall.node.type = "Identifier"
  /\ NextType \in {"Identifier", "VariablePattern"}

HasUid(nodes, node) == \E i \in 1..Len(nodes) : ~IsNull(nodes[i]) /\ nodes[i].uid = node.uid

\* The position of an identifier, the last of anc, is a referring use: it is not the
\* property of a non-computed member expression, a parameter, the key of a method, the
\* id of a function declaration or of a declarator, an element of an array pattern or
\* the value of a property of an object pattern
ReferringUse(anc) ==
  LET node == anc[Len(anc)]
      parent == anc[Len(anc) - 1]
  IN  Len(anc) >= 2 =>
        /\ ~(/\ parent.type = "MemberExpression"
             /\ parent.property.uid = node.uid
             /\ ~parent.computed)
        /\ ~(/\ parent.type \in {"FunctionDeclaration", "FunctionExpression",
                                 "ArrowFunctionExpression"}
             /\ HasUid(parent.params, node))
        /\ ~(parent.type = "MethodDefinition" /\ parent.key.uid = node.uid)
        /\ ~(parent.type = "FunctionDeclaration" /\ parent.id.uid = node.uid)
        /\ ~(parent.type = "VariableDeclarator" /\ parent.id.uid = node.uid)
        /\ ~(parent.type = "ArrayPattern" /\ HasUid(parent.elements, node))
        /\ ~(/\ parent.type = "Property"
             /\ parent.value.uid = node.uid
             /\ Len(anc) >= 3
             /\ anc[Len(anc) - 2].type = "ObjectPattern")

\* The step records the identifier it enters
RecordsGlobal ==
  globals' = Append(globals, [name |-> NextCall.node.name, start |-> NextCall.node.uid])

\* C17: an identifier is recorded as a global exactly when its name is a known platform
\* global, the lookup of the name from the active environment finds no binding, and
\* its position is a referring use; an identifier with a visible binding is never
\* recorded
C17_GlobalIffFreeReferringUse ==
  [][GlobalsVisitsIdentifier =>
       /\ RecordsGlobal <=>
            (/\ NextCall.node.name \in globalNames
             /\ ~hasVarNamed(envs', env', NextCall.node.name)
             /\ ReferringUse(NextAncestors))
       /\ RecordsGlobal \/ globals' = globals
       /\ RecordsGlobal => Resolve(NextCall.node.name, NextAncestors).how = "none"]_vars

\* The initialiser of the declarator is a known global without a visible binding
DestructuresGlobal(declarator, anc) ==
  /\ ~IsNull(declarator.init)
  /\ declarator.init.type = "Identifier"
  /\ declarator.init.name \in globalNames
  /\ Resolve(declarator.init.name, anc).how = "none"

\* The members "G.a" of the properties of object patterns, "G.<i>" of the slots of
\* array patterns that are neither elided nor a rest element
DestructuredGlobalMembers(declarations, anc) ==
  LET subject(k) == NameText(declarations[k].init)
  IN  { JSString(Dot(subject(k), NameText(declarations[k].id.properties[i].key))) :
          <<k, i>> \in { <<k, i>> \in (1..Len(declarations)) \X (1..3) :
                           /\ DestructuresGlobal(declarations[k], anc)
                           /\ declarations[k].id.type = "ObjectPattern"
                           /\ i <= Len(declarations[k].id.properties)
                           /\ declarations[k].id.properties[i].type = "Property" } }
      \cup
      { JSString(Dot(subject(k), IndexText(i - 1))) :
          <<k, i>> \in { <<k, i>> \in (1..Len(declarations)) \X (1..3) :
                           /\ DestructuresGlobal(declarations[k], anc)
                           /\ declarations[k].id.type = "ArrayPattern"
                           /\ i <= Len(declarations[k].id.elements)
                           /\ ~IsNull(declarations[k].id.elements[i])
                           /\ declarations[k].id.elements[i].type # "RestElement" } }

GlobalsVisits(type) ==
  /\ pc = "findGlobalsInAST"
  /\ stack # <<>> /\ Top.todo # <<>>
  /\ NextType = type

\* C18: a declaration adds to the global members exactly "G.a" for every property of
\* an object pattern and "G.<i>" for every non-elided slot i of an array pattern whose
\* initialiser G is a known global without a visible binding; a rest element adds
\* nothing, and a declaration from a bound or unknown name adds nothing
C18_DestructuredGlobalMembers ==
  [][GlobalsVisits("VariableDeclaration") =>
       Elems(globalMembers') =
         Elems(globalMembers)
           \cup DestructuredGlobalMembers(NextCall.node.declarations, NextAncestors)]_vars

\* A file's text is JavaScript once a leading "#!" line is taken off
Parseable(d, filePath) == Lookup(d, filePath).content.parses

\* The loop of a per-package function is at a file that does not parse
AtBrokenFile(loop) ==
  /\ pc = loop
  /\ pkg.jsFilePaths # <<>>
  /\ ~Parseable(disk, Head(pkg.jsFilePaths))

\* The files of the package the loop has gone through
FilesDone ==
  LET all == recursiveGetJSFilePaths(disk, pkg.packagePath)
  IN  {all[i] : i \in 1..(Len(all) - Len(pkg.jsFilePaths))}

\* The modules the parseable files among paths import
ModulesOfFiles(d, paths) ==
  UNION {Elems(extractImportsFromAST(Program(Lookup(d, filePath).content.body))) :
           filePath \in {f \in paths : Parseable(d, f)}}

\* The step goes on to the next file of the same package and changes nothing else
SkipsFile(loop) ==
  /\ pc' = loop
  /\ pkg' = [pkg EXCEPT !.jsFilePaths = Tail(@)]
  /\ UNCHANGED <<queue, capabilitiesCoarse, capabilitiesFine, newPolicy>>

\* C19: a file that does not parse is skipped and the run goes on with the next file
\* of the package, the package's sets unchanged; the sets of a package grow by what
\* the traversals of a parseable file returned, and its modules are those the
\* parseable files gone through import
C19_UnparsableFileSkipped ==
  [][/\ AtBrokenFile("getAccessesForPackage") => SkipsFile("getAccessesForPackage")
     /\ AtBrokenFile("getMemberAccessesForPackage")
          => SkipsFile("getMemberAccessesForPackage")
     /\ pc = "getAccessesForPackage:union" =>
          /\ Parseable(disk, Head(pkg.jsFilePaths))
          /\ Elems(pkg'.globals) = Elems(pkg.globals) \cup Elems(returned.globals)
     /\ pc = "getMemberAccessesForPackage:union" =>
          /\ Parseable(disk, Head(pkg.jsFilePaths))
          /\ Elems(pkg'.moduleMemberAccesses) =
               Elems(pkg.moduleMemberAccesses) \cup Elems(pkg.fileModuleMemberAccesses)
          /\ Elems(pkg'.globalMemberAccesses) =
               Elems(pkg.globalMemberAccesses) \cup Elems(returned.globalMembers)
     /\ pc' = "getAccessesForPackage" =>
          Elems(pkg'.modules) = ModulesOfFiles(disk', FilesDone')
     /\ pc' = "aborted" => pc \in {"findGlobalsInAST", "extractMemberAccesses",
                                   "getCapabilitiesFromDependencyMap", "aborted"}]_vars

\* The run ended; the first file of the project and the first of lodash do not parse,
\* and the policy lists what the files after them access
C19_Witness ==
  /\ Finished /\ newPolicy.memberAccessTracing
  /\ existsSync(disk, project \o <<node_modules>> \o lodash \o <<Js("lib")>>)
  /\ ~Parseable(disk, recursiveGetJSFilePaths(disk, project)[1])
  /\ ~Parseable(disk, recursiveGetJSFilePaths(disk, project \o <<node_modules>> \o lodash)[1])
  /\ Elems(ObjGet(newPolicy.policyCoarse, app).globals) = {JSString(<<"console">>)}
  /\ Elems(ObjGet(newPolicy.policyCoarse, lodash).modules) = {JSString(<<"fs">>)}
  /\ Elems(ObjGet(newPolicy.policyFine, lodash).modules) = {JSString(<<"fs", "readFile">>)}

\* Nothing is at the path on disk
Absent(d, path) == Lookup(d, path).kind = "none"

RECURSIVE AbsentOptional(_, _, _, _)
\* Version 1: the paths of the entries marked optional whose directory is absent, and
\* of the entries nested below such an entry (below is TRUE under one)
AbsentOptional(d, packages, nodeModulesPath, below) ==
  UNION { LET packagePath == nodeModulesPath \o packages[i].key
              gone == below \/ (packages[i].value.optional /\ Absent(d, packagePath))
          IN  (IF gone THEN {packagePath} ELSE {})
                \cup AbsentOptional(d, packages[i].value.dependencies,
                                    Append(packagePath, node_modules), gone) :
            i \in 1..Len(packages) }

\* Versions 2 and 3: the paths of the entries of "packages" whose directory is absent
AbsentInstalled(d, packages, root) ==
  {root \o packages[i].key : i \in {j \in 1..Len(packages) : Absent(d, root \o packages[j].key)}}

\* The lockfile entries the dependency map must leave out
Excluded ==
  CASE lockfile.lockfileVersion = 1 ->
         AbsentOptional(disk, lockfile.dependencies, Append(rootPath, node_modules), FALSE)
    [] lockfile.lockfileVersion \in {2, 3} ->
         AbsentInstalled(disk, lockfile.packages, rootPath)
    [] OTHER -> {}

\* main has built the dependency map of this run
Mapped == pc \notin {"main", "exit"}

\* C20: the path of a lockfile entry whose directory is absent is no key of the
\* dependency map and no element of an edge list: under version 1 when the entry is
\* marked optional, and then also the entries nested below it; under versions 2 and
\* 3 whatever the entry
C20_AbsentEntriesExcluded ==
  Mapped =>
    \A path \in Excluded :
      /\ ~ObjHas(dependencyMap, path)
      /\ \A i \in 1..Len(dependencyMap) : ~SetHas(dependencyMap[i].value, PathValue(path))

\* A version 1 lockfile with an optional entry and an entry nested below it, both
\* absent from the disk: the map has the project and lodash, and lodash, which
\* requires the optional package, has no edge
C20_Witness ==
  /\ Mapped
  /\ lockfile.lockfileVersion = 1
  /\ Cardinality(Excluded) = 2
  /\ Elems(ObjKeys(dependencyMap)) = {project, project \o <<node_modules>> \o lodash}
  /\ ObjGet(dependencyMap, project) = <<PathValue(project \o <<node_modules>> \o lodash)>>
  /\ ObjGet(dependencyMap, project \o <<node_modules>> \o lodash) = <<>>

\* The package names of the paths among the elements of an edge list
EdgeNames(edges) ==
  {LastPathPart(edges[i].path) : i \in {j \in 1..Len(edges) : edges[j].typeof = "string"}}

\* The package names the dependency map has a package for, the project aside
MappedNames ==
  {LastPathPart(dependencyMap[i].key) :
     i \in {j \in 1..Len(dependencyMap) : dependencyMap[j].key # rootPath}}

\* C21: under a lockfile of version 1, 2 or 3 the path of the project is a key of the
\* dependency map, and the packages of its edge list are those of the names that
\* package.json lists as dependencies
C21_RootEdgesFromManifest ==
  Mapped /\ lockfile.lockfileVersion \in 1..3 =>
    /\ ObjHas(dependencyMap, rootPath)
    /\ EdgeNames(ObjGet(dependencyMap, rootPath)) = Elems(packageJson.dependencies) \cap MappedNames

Builtin(module) == \E i \in 1..Len(NATIVE_MODULES) : NATIVE_MODULES[i] = module

\* Every module of a coarse entry and the module of every member of a fine entry is
\* a builtin module
BuiltinOnly(coarse, fine) ==
  /\ \A i \in 1..Len(coarse) :
       \A m \in Elems(coarse[i].value.modules) : Builtin(m)
  /\ \A i \in 1..Len(fine) :
       \A m \in Elems(fine[i].value.modules) : Builtin(JSString(Front(m.str)))

\* getAccessesForPackage is about to return for the package that pkg holds
AccessesReturn == pc = "getAccessesForPackage" /\ pkg.jsFilePaths = <<>>

\* C22: without --custom-modules every coarse module and the module of every fine
\* module member, per analysed path and per name in the policy, is a builtin module;
\* with the option the coarse modules of a package are all the modules its files
\* import, the others included
C22_BuiltinModulesUnlessOption ==
  [][/\ ~argv.customModules =>
          /\ BuiltinOnly(capabilitiesCoarse', capabilitiesFine')
          /\ BuiltinOnly(newPolicy'.policyCoarse, newPolicy'.policyFine)
     /\ argv.customModules /\ AccessesReturn =>
          Elems(ObjGet(capabilitiesCoarse', pkg.packagePath).modules)
            = ModulesOfFiles(disk, Elems(recursiveGetJSFilePaths(disk, pkg.packagePath)))]_vars

\* With the option the policy of the project lists lodash, which is no builtin module
C22_Witness ==
  /\ Finished /\ argv.customModules
  /\ ObjHas(newPolicy.policyCoarse, app)
  /\ SetHas(ObjGet(newPolicy.policyCoarse, app).modules, JSString(<<"lodash">>))

\* No element of the array comes before an earlier one in the order of the strings
Ascending(arr) ==
  \A i, j \in 1..Len(arr) : i < j => ~StrLess(arr[j].str, arr[i].str)

DuplicateFree(arr) ==
  \A i, j \in 1..Len(arr) : i < j => arr[i] # arr[j]

\* C23: in every entry of the coarse and of the fine policy the modules and the globals
\* are in ascending order and hold no value twice, for a package of one copy and for
\* one united from several copies
C23_ArraysSortedDuplicateFree ==
  \A policy \in {newPolicy.policyCoarse, newPolicy.policyFine} :
    \A i \in 1..Len(policy) :
      /\ Ascending(policy[i].value.modules) /\ DuplicateFree(policy[i].value.modules)
      /\ Ascending(policy[i].value.globals) /\ DuplicateFree(policy[i].value.globals)

\* Two copies of lodash were analysed, the first requiring path, the second path and
\* fs: the policy lists fs before path, once each
C23_Witness ==
  /\ Finished
  /\ Cardinality(Copies(capabilitiesCoarse, lodash)) = 2
  /\ capabilitiesCoarse[Min(Copies(capabilitiesCoarse, lodash))].value.modules
       = <<JSString(<<"path">>)>>
  /\ capabilitiesCoarse[Max(Copies(capabilitiesCoarse, lodash))].value.modules
       = <<JSString(<<"path">>), JSString(<<"fs">>)>>
  /\ ObjGet(newPolicy.policyCoarse, lodash).modules
       = <<JSString(<<"fs">>), JSString(<<"path">>)>>

Walking == pc \in {"findGlobalsInAST", "extractMemberAccesses"}

\* The call of c that pushed a block node onto the ancestors is about to return
LeavesBlock ==
  /\ Walking
  /\ Len(stack) > 1 /\ Top.todo = <<>>
  /\ Top.isNew /\ Top.node.type = "BlockStatement"

\* A step of either traversal that dispatches on an identifier
VisitsIdentifier ==
  /\ Walking
  /\ stack # <<>> /\ Top.todo # <<>>
  /\ NextCall.node.type = "Identifier"

RECURSIVE Chain(_, _)
\* The environments a lookup that starts at e goes through
Chain(heap, e) == IF e = 0 THEN {} ELSE {e} \cup Chain(heap, heap[e].parent)

\* The environments that were active when the blocks that are being visited were entered
EnteredFrom(frames) ==
  {frames[i].prev_env : i \in {j \in 1..Len(frames) : frames[j].type = "BlockStatement"}}

\* C24: when the visit of a block node is over, the active environment is the one that
\* was active when the visit began and the ancestors are those of before, the block
\* popped; a lookup goes through the active environment and the environments the
\* blocks being visited were entered from, so through none of a block that was left
C24_BlockExitRestores ==
  [][/\ LeavesBlock =>
          /\ env' = Top.prev_env
          /\ envs' = envs
          /\ ancestors[Len(ancestors)] = Top.node
          /\ ancestors' = SubSeq(ancestors, 1, Len(ancestors) - 1)
     /\ Walking /\ pc' = pc =>
          Chain(envs', env') = ({env'} \cup EnteredFrom(stack')) \ {0}]_vars

\* { let console } console.log: the block was left and console, looked up after it,
\* was recorded as a global
C24_Witness ==
  /\ GlobalsDone
  /\ Len(ast.body) = 2
  /\ ast.body[1] = BlockStatement(10, <<Declare(20, "let", Identifier(22, "console"), Null)>>)
  /\ ast.body[2].type = "ExpressionStatement"
  /\ Len(envs) = 2 /\ env = 1
  /\ envs[2].vars = <<Variable("console")>>
  /\ Len(globals) = 1 /\ globals[1].name = "console"
  /\ globalMembers = <<JSString(<<"console", "log">>)>>

\* A step of either traversal that dispatches on a block statement and goes on
EntersBlock ==
  /\ Walking
  /\ stack # <<>> /\ Top.todo # <<>>
  /\ NextType = "BlockStatement"
  /\ pc' = pc

\* The scope type the block on top of anc is to get: the block is the body of a
\* method definition, of another function, or of neither
BlockKind(anc) ==
  IF Anc(anc, 2).type \notin FunctionShaped THEN "Block"
  ELSE IF Len(anc) >= 3 /\ Anc(anc, 3).type = "MethodDefinition" THEN "Method"
  ELSE "Function"

\* The parameters of the function whose body is the block on top of anc
BlockParams(anc) ==
  IF BlockKind(anc) = "Block" THEN <<>>
  ELSE [i \in 1..Len(Anc(anc, 2).params) |-> Variable(Anc(anc, 2).params[i].name)]

\* C25: entering a block creates a scope below the active one: a Function scope with
\* the parameters when the block is the body of a function declaration, a function
\* expression or an arrow function, a Method scope with the parameters when it is the
\* body of a method definition, a Block scope without bindings otherwise
C25_ScopeOfBlock ==
  [][EntersBlock =>
       /\ envs' = Append(envs, Environment(BlockKind(NextAncestors), env,
                                           BlockParams(NextAncestors)))
       /\ env' = Len(envs')]_vars

\* A step of either traversal that dispatches on a variable declaration and goes on
DeclaresVariables ==
  /\ Walking
  /\ stack # <<>> /\ Top.todo # <<>>
  /\ NextType = "VariableDeclaration"
  /\ pc' = pc

\* The frames of the calls of c that created an environment
ScopeFrames == {j \in 1..Len(stack) : stack[j].type \in {"Program", "BlockStatement"}}

\* The environment the call of frame j created
EnvOfFrame(j) ==
  LET later == {k \in ScopeFrames : k > j}
  IN  IF later = {} THEN env ELSE stack[Min(later)].prev_env

\* The node above the node of frame j
ParentOfFrame(j) ==
  stack[Max({k \in 1..(j - 1) : stack[k].node.uid # stack[j].node.uid})].node

\* Frame j is the program, or the block that is the body of a function or of a method
FunctionFrames ==
  {j \in ScopeFrames : \/ stack[j].type = "Program"
                       \/ ParentOfFrame(j).type \in FunctionShaped}

NamesOf(variables) == [i \in 1..Len(variables) |-> variables[i].name]

NamesDeclared(declaration) ==
  UNION {PatternNames(declaration.declarations[i].id) :
           i \in 1..Len(declaration.declarations)}

\* C26: a var declaration adds its names to the scope of the nearest enclosing
\* function or method body, or of the program, and a let or const declaration to the
\* active scope; no other scope changes, so the names of a var stay visible after the
\* blocks around the declaration are left, until the function is left
C26_VarInFunctionScope ==
  [][DeclaresVariables =>
       LET target == IF NextCall.node.kind = "var"
                     THEN EnvOfFrame(Max(FunctionFrames)) ELSE env
       IN  /\ env' = env
           /\ Len(envs') = Len(envs)
           /\ \A e \in 1..Len(envs) :
                IF e = target
                THEN /\ Len(envs'[e].vars) > Len(envs[e].vars)
                     /\ SubSeq(NamesOf(envs'[e].vars), 1, Len(envs[e].vars))
                          = NamesOf(envs[e].vars)
                     /\ {envs'[e].vars[i].name :
                           i \in (Len(envs[e].vars) + 1)..Len(envs'[e].vars)}
                          = NamesDeclared(NextCall.node)
                ELSE NamesOf(envs'[e].vars) = NamesOf(envs[e].vars)]_vars

\* function f(a) { { var console } console.log } console.log: console of the block is
\* in the scope of f and hides the global after the block, not after f
C26_Witness ==
  /\ GlobalsDone
  /\ \E f \in Nested(100, "var") :
       /\ f.type = "FunctionDeclaration"
       /\ ast.body = <<f, Member(50, Identifier(52, "console"), Identifier(53, "log"), FALSE)>>
  /\ Len(envs) = 3
  /\ envs[2].type = "Function" /\ NamesOf(envs[2].vars) = <<"a", "console">>
  /\ envs[3].type = "Block" /\ envs[3].vars = <<>>
  /\ Len(globals) = 1 /\ globals[1].start = 52

\* A step of either traversal that dispatches on a variable declaration
VisitsDeclaration ==
  /\ Walking
  /\ stack # <<>> /\ Top.todo # <<>>
  /\ NextType = "VariableDeclaration"

\* The shapes of binding targets the pattern extractor knows
KnownShapes == {"Identifier", "RestElement", "AssignmentPattern", "ObjectPattern",
                "ArrayPattern", "Property", "UpdateExpression", "UnaryExpression"}

\* The declarators of the declaration that is entered whose target is an object pattern
\* with a member that is neither a property nor a rest element
OddDeclarators ==
  {d \in Elems(NextCall.node.declarations) :
     /\ d.id.type = "ObjectPattern"
     /\ \E i \in 1..Len(d.id.properties) :
          d.id.properties[i].type \notin {"Property", "RestElement"}
     /\ ~IsNull(d.init)}

\* The step enters a declaration, or the body of a function, with a binding target of a
\* shape that is not known
UnknownShapeBound ==
  \/ /\ VisitsDeclaration
     /\ \E d \in Elems(NextCall.node.declarations) : d.id.type \notin KnownShapes
  \/ /\ Walking
     /\ stack # <<>> /\ Top.todo # <<>>
     /\ NextType = "BlockStatement"
     /\ Anc(NextAncestors, 2).type \in FunctionShaped
     /\ \E i \in 1..Len(Anc(NextAncestors, 2).params) :
          Anc(NextAncestors, 2).params[i].type \notin KnownShapes

\* The step traces a destructuring of a module or of a global whose pattern has a
\* member that is neither a property nor a rest element
UnknownPropertyTraced ==
  /\ VisitsDeclaration
  /\ \E d \in OddDeclarators :
       \/ /\ pc = "extractMemberAccesses"
          /\ \/ IsRequire(d.init)
             \/ /\ d.init.type = "Identifier"
                /\ Resolve(d.init.name, NextAncestors).module # NullValue
       \/ /\ pc = "findGlobalsInAST"
          /\ d.init.type = "Identifier"
          /\ d.init.name \in globalNames
          /\ Resolve(d.init.name, NextAncestors).how = "none"

\* C27: a binding target of an unknown shape, and an unknown member of an object
\* pattern in a traced destructuring, end the run at once: the traversal does not
\* return, no later file is analysed and no policy is written
C27_UnknownShapeAborts ==
  [][/\ UnknownShapeBound \/ UnknownPropertyTraced => pc' = "aborted"
     /\ pc = "aborted" => FALSE]_vars

\* The run ended in the first file of the project, const a.b = console; main.js after it
\* was not analysed and there is no policy
C27_Witness ==
  /\ pc = "aborted"
  /\ stack # <<>> /\ Top.todo # <<>>
  /\ <<NextCall.node>> = UnknownTarget
  /\ FilesDone = {}
  /\ existsSync(disk, project \o <<Js("main")>>)
  /\ newPolicy.policyCoarse = <<>>

\* C28: under a lockfile of version 1, 2 or 3 every element of every edge list of the
\* dependency map is a path, and the path is a key of the map; a dependency name
\* without a package path adds nothing
C28_EdgesAreKeys ==
  Mapped /\ lockfile.lockfileVersion \in 1..3 =>
    \A i \in 1..Len(dependencyMap) :
      \A j \in 1..Len(dependencyMap[i].value) :
        /\ dependencyMap[i].value[j].typeof = "string"
        /\ ObjHas(dependencyMap, dependencyMap[i].value[j].path)

\* The names a loop statement declares in its head with let or const
HeadNames(statement) ==
  LET head == CASE statement.type = "ForStatement" -> statement.init
                [] statement.type \in {"ForInStatement", "ForOfStatement"} -> statement.left
                [] OTHER -> Null
  IN  IF head.type = "VariableDeclaration" /\ head.kind \in {"let", "const"}
      THEN UNION {PatternNames(head.declarations[i].id) : i \in 1..Len(head.declarations)}
      ELSE {}

\* The place whose ancestors are anc is in a statement of the program that comes after
\* a loop whose head declares name
AfterLoopOf(name, anc) ==
  /\ Len(anc) >= 2
  /\ \E i, k \in 1..Len(ast.body) :
       /\ i < k
       /\ name \in HeadNames(ast.body[i])
       /\ ast.body[k].uid = anc[2].uid

\* C29: a name declared with let or const in the head of a loop is not bound after the
\* loop: a later reference to a platform global of that name, free where it stands, is
\* recorded as a global, and a member access on it as a global member
C29_LoopHeadBindingEnds ==
  [][/\ /\ GlobalsVisitsIdentifier
        /\ NextCall.node.name \in globalNames
        /\ ReferringUse(NextAncestors)
        /\ Resolve(NextCall.node.name, NextAncestors).how = "none"
        /\ AfterLoopOf(NextCall.node.name, NextAncestors)
        => RecordsGlobal
     /\ /\ GlobalsVisits("MemberExpression")
        /\ NextCall.node.object.type = "Identifier"
        /\ NextCall.node.object.name \in globalNames
        /\ NextCall.node.property.type = "Identifier" /\ ~NextCall.node.computed
        /\ Resolve(NextCall.node.object.name, NextAncestors).how = "none"
        /\ AfterLoopOf(NextCall.node.object.name, NextAncestors)
        => SetHas(globalMembers',
                  JSString(<<NextCall.node.object.name, NextCall.node.property.name>>))]_vars

\* C30: where the nearest binding of a name is a parameter of a function declaration,
\* a function expression or an arrow function, with a block or an expression as its
\* body, an identifier of that name is not recorded as a global, and a member access on
\* it is recorded neither as a global member nor as a module member
C30_ParameterBinds ==
  [][/\ /\ GlobalsVisitsIdentifier
        /\ Resolve(NextCall.node.name, NextAncestors).how = "parameter"
        => globals' = globals
     /\ /\ GlobalsVisits("MemberExpression")
        /\ NextCall.node.object.type = "Identifier"
        /\ Resolve(NextCall.node.object.name, NextAncestors).how = "parameter"
        => globalMembers' = globalMembers
     /\ MembersVisitsMember /\ ObjectBinding.how = "parameter"
        => memberAccesses' = memberAccesses]_vars

====
